---- MODULE Spec2Model ----
(***************************************************************************)
(* A model of the NebulaVM deobfuscator core: the disassembler            *)
(* (lib/disassembler.js), the control-flow graph (lib/cfg.js), the region  *)
(* recogniser (emission/controlFlowReconstructor.js) and the symbolic      *)
(* stack lifter (lib/codeGenerator.js, emission/stackMachine.js,           *)
(* emission/statementEmitter.js).                                          *)
(*                                                                         *)
(* Instruction indices are the 0-based indices of the source; the k-th     *)
(* instruction of a stream ins is ins[k + 1].                              *)
(***************************************************************************)
EXTENDS Integers, Sequences, FiniteSets, TLC

VARIABLES
    pc,               \* position of the pipeline
    bytecode,         \* Disassembler.bytecode
    pointer,          \* Disassembler.pointer
    detectedVersion,  \* Disassembler.detectedVersion
    opcodeMap,        \* Disassembler.opcodeMap / CodeGenerator.opcodeMap
    returnOpcode,     \* Disassembler.returnOpcode
    instructions,     \* Disassembler.instructions / CodeGenerator.instructions
    swappedOpcodes,   \* CodeGenerator.swappedOpcodes
    loops,            \* result of ControlFlowReconstructor.detectLoops
    cfg,              \* the ControlFlowGraph object
    maps,             \* the region maps generate() computes before its main loop
    gi,               \* generate(): the main-loop index i
    stack,            \* generate(): the symbolic stack
    gen,              \* the CodeGenerator fields generate() mutates
    thrown,           \* an exception escaped generate()
    trace,            \* history: what the last step of generate() did
    strings,          \* the string table handed to the encoder
    stringsBytes,     \* decodeStringsBytes(): its argument
    decodedStrings,   \* decodeStringsBytes(): its result
    payload,          \* index.js: the bytecode as decodeBytecode returned it
    calls             \* history: the getVarName calls made, with their results

disVars == <<bytecode, pointer, detectedVersion, opcodeMap, returnOpcode>>
anaVars == <<loops, cfg, maps>>
genVars == <<gi, stack, gen, thrown, trace>>
fileVars == <<strings, stringsBytes, decodedStrings, payload, calls>>
vars == <<pc, bytecode, pointer, detectedVersion, opcodeMap, returnOpcode,
          instructions, swappedOpcodes, loops, cfg, maps, gi, stack, gen,
          thrown, trace, strings, stringsBytes, decodedStrings, payload, calls>>

(***************************************************************************)
(* Bounds of the model.                                                    *)
(***************************************************************************)
MaxItems == 3          \* items (a byte or a dword) of an input byte vector
MaxDecompressed == 8   \* longest LZ77 output among the input byte vectors
MaxStream == 3         \* instructions of an enumerated instruction stream
MaxStrings == 2        \* strings of an input string table
MaxUnits == 2          \* code units of a short input string
MaxBody == 8           \* bytes of a nested function body that is decoded again
MaxCalls == 3          \* getVarName calls made on one generator

\* const x = v; ... x ... : v is evaluated once and named x in F.
Let(v, F(_)) == CHOOSE r \in {F(x) : x \in {v}} : TRUE

Null == -1          \* null / undefined where the source holds a number

Min(a, b) == IF a < b THEN a ELSE b
Max(a, b) == IF a > b THEN a ELSE b
Range(s) == {s[k] : k \in DOMAIN s}
IsJump(instr) == instr.opName \in {"JUMP", "JUMP_IF_TRUE", "JUMP_IF_FALSE"}
Addresses(ins) == {ins[k].addr : k \in DOMAIN ins}

(***************************************************************************)
(* lib/opcodes.js                                                          *)
(***************************************************************************)
OperationCode ==
  << "STACK_PUSH_STRING", "STACK_PUSH_DWORD", "STACK_PUSH_DOUBLE",
     "STACK_PUSH_BOOLEAN", "STACK_PUSH_NULL", "STACK_PUSH_UNDEFINED",
     "STACK_PUSH_DUPLICATE", "STACK_POP",
     "ARITHMETIC_ADD", "ARITHMETIC_SUB", "ARITHMETIC_MUL", "ARITHMETIC_DIV",
     "ARITHMETIC_MOD",
     "COMPARISON_EQUAL", "COMPARISON_STRICT_EQUAL", "COMPARISON_NOT_EQUAL",
     "COMPARISON_STRICT_NOT_EQUAL", "COMPARISON_LESS",
     "COMPARISON_LESS_OR_EQUAL", "COMPARISON_GREATER",
     "COMPARISON_GREATER_OR_EQUAL",
     "BINARY_BIT_SHIFT_LEFT", "BINARY_BIT_SHIFT_RIGHT",
     "BINARY_UNSIGNED_BIT_SHIFT_RIGHT", "BINARY_BIT_XOR", "BINARY_BIT_AND",
     "BINARY_BIT_OR", "BINARY_IN", "BINARY_INSTANCEOF",
     "UNARY_PLUS", "UNARY_MINUS", "UNARY_NOT", "UNARY_BIT_NOT",
     "UNARY_TYPEOF", "UNARY_VOID", "UNARY_THROW",
     "UPDATE_PLUS", "UPDATE_MINUS", "PROP_UPDATE_PLUS", "PROP_UPDATE_MINUS",
     "COMPLEX_PROP_UPDATE_PLUS", "COMPLEX_PROP_UPDATE_MINUS",
     "LOAD_VARIABLE", "STORE_VARIABLE", "ASSIGN_VARIABLE",
     "ADD_ASSIGN_VARIABLE", "SUB_ASSIGN_VARIABLE", "MUL_ASSIGN_VARIABLE",
     "DIV_ASSIGN_VARIABLE", "MOD_ASSIGN_VARIABLE",
     "BIT_SHIFT_LEFT_ASSIGN_VARIABLE", "BIT_SHIFT_RIGHT_ASSIGN_VAIRABLE",
     "UNSIGNED_BIT_SHIFT_RIGHT_ASSIGN_VARIABLE", "BIT_XOR_ASSIGN_VARIABLE",
     "BIT_AND_ASSIGN_VARIABLE", "BIT_OR_ASSIGN_VARIABLE",
     "LOAD_GLOBAL", "LOAD_GLOBAL_PROP", "LOAD_THIS", "LOAD_ARGUMENT",
     "LOAD_ARGUMENTS",
     "CALL_FUNCTION", "CALL_METHOD", "CONSTRUCT",
     "GET_PROPERTY", "SET_PROPERTY",
     "BUILD_ARRAY", "BUILD_OBJECT", "BUILD_FUNCTION",
     "JUMP", "JUMP_IF_TRUE", "JUMP_IF_FALSE", "RETURN", "DEBUGGER" >>

\* OpcodeNames[n] of the source is OperationCode[n + 1] here.
InOpcodeNames(n) == n >= 0 /\ n < Len(OperationCode)
OpcodeNames(n) == OperationCode[n + 1]

\* OperationCode[name] of the source: the canonical number of a name.
CanonicalCode(name) ==
  CHOOSE n \in 0..(Len(OperationCode) - 1) : OperationCode[n + 1] = name

(***************************************************************************)
(* lib/disassembler.js                                                     *)
(***************************************************************************)
V1_LEGACY == "V1_LEGACY"
V2_CURRENT == "V2_CURRENT"

\* The string table the disassembler and the generator are given.
Strings == << "foo", "bar" >>

\* this.bytecode[p]: undefined (Null) outside the vector.
ByteAt(bc, p) == IF p >= 0 /\ p < Len(bc) THEN bc[p + 1] ELSE Null

\* undefined | x and undefined << n are 0 in the source's bit arithmetic.
Or0(b) == IF b = Null THEN 0 ELSE b

Slice(bc, from, to) ==
  IF to <= from THEN << >> ELSE [k \in 1..(to - from) |-> bc[from + k]]

readDword(bc, p) ==
  Or0(ByteAt(bc, p)) + 256 * Or0(ByteAt(bc, p + 1))
    + 65536 * Or0(ByteAt(bc, p + 2)) + 16777216 * Or0(ByteAt(bc, p + 3))

\* Bytes of the model stay below 128, so a dword never has bit 31 set and the
\* signed reading equals the unsigned one.
readSignedDword(bc, p) == readDword(bc, p)

readDouble(bc, p) == [k \in 1..8 |-> Or0(ByteAt(bc, p + k - 1))]

UnknownName(opcode) ==
  IF opcode = Null THEN "UNKNOWN_undefined" ELSE "UNKNOWN_" \o ToString(opcode)

\* getOpcodeName with OP_<n> as the name of an opcode outside both tables.
getOpcodeNameOp(opcode, map, ret) ==
  IF ret # Null /\ opcode = ret THEN "RETURN"
  ELSE IF opcode \in DOMAIN map THEN map[opcode]
  ELSE IF InOpcodeNames(opcode) THEN OpcodeNames(opcode)
  ELSE "OP_" \o ToString(opcode)

getOpcodeName(opcode, map, ret) ==
  IF ret # Null /\ opcode = ret THEN "RETURN"
  ELSE IF opcode \in DOMAIN map THEN map[opcode]
  ELSE IF InOpcodeNames(opcode) THEN OpcodeNames(opcode)
  ELSE UnknownName(opcode)

StringOr(idx, prefix) ==
  IF idx < Len(Strings) /\ Strings[idx + 1] # "" THEN Strings[idx + 1]
  ELSE "[" \o prefix \o ToString(idx) \o "]"

Arg(t, v) == [type |-> t, value |-> v]

\* An instruction object { addr, opcode, opName, args } and its optional fields.
Instr(addr, opcode, opName, args) ==
  [addr |-> addr, opcode |-> opcode, opName |-> opName, args |-> args,
   error |-> FALSE, stringValue |-> "", fnBody |-> << >>,
   patternValue |-> "", flagsValue |-> "", detectedVersion |-> ""]

\* The switch without the V2 cases of TRY_PUSH and BUILD_REGEXP.
OperandWidthV1Only(bc, p, opName, version) ==
  CASE opName \in {"STACK_PUSH_STRING", "STACK_PUSH_DWORD", "LOAD_ARGUMENT",
                   "CALL_FUNCTION", "CALL_METHOD", "CONSTRUCT", "BUILD_ARRAY",
                   "BUILD_OBJECT", "JUMP", "JUMP_IF_TRUE", "JUMP_IF_FALSE"} -> 4
    [] opName = "STACK_PUSH_DOUBLE" -> 8
    [] opName \in {"STACK_PUSH_BOOLEAN", "COMPLEX_PROP_UPDATE_PLUS",
                   "COMPLEX_PROP_UPDATE_MINUS", "RETURN"} -> 1
    [] opName \in {"UPDATE_PLUS", "UPDATE_MINUS", "PROP_UPDATE_PLUS",
                   "PROP_UPDATE_MINUS"} -> 9
    [] opName \in {"LOAD_VARIABLE", "STORE_VARIABLE", "TRY_CATCH"} -> 8
    [] opName = "ASSIGN_VARIABLE" ->
         IF Or0(ByteAt(bc, p)) # 0 THEN 10 ELSE 9
    [] opName = "BUILD_FUNCTION" -> 4 + readDword(bc, p)
    [] opName \in {"BUILD_REGEXP", "TRY_PUSH"} -> 8
    [] OTHER -> 0

\* The operand bytes the switch of disassemble() reads after the opcode byte at
\* p - 1, for opName under the detected version.
OperandWidth(bc, p, opName, version) ==
  CASE opName \in {"STACK_PUSH_STRING", "STACK_PUSH_DWORD", "LOAD_ARGUMENT",
                   "CALL_FUNCTION", "CALL_METHOD", "CONSTRUCT", "BUILD_ARRAY",
                   "BUILD_OBJECT", "JUMP", "JUMP_IF_TRUE", "JUMP_IF_FALSE"} -> 4
    [] opName = "STACK_PUSH_DOUBLE" -> 8
    [] opName \in {"STACK_PUSH_BOOLEAN", "COMPLEX_PROP_UPDATE_PLUS",
                   "COMPLEX_PROP_UPDATE_MINUS", "RETURN"} -> 1
    [] opName \in {"UPDATE_PLUS", "UPDATE_MINUS", "PROP_UPDATE_PLUS",
                   "PROP_UPDATE_MINUS"} -> 9
    [] opName \in {"LOAD_VARIABLE", "STORE_VARIABLE", "TRY_CATCH"} -> 8
    [] opName = "ASSIGN_VARIABLE" ->
         IF Or0(ByteAt(bc, p)) # 0 THEN 10 ELSE 9
    [] opName = "BUILD_FUNCTION" -> 4 + readDword(bc, p)
    [] opName = "BUILD_REGEXP" -> IF version = V2_CURRENT THEN 1 ELSE 8
    [] opName = "TRY_PUSH" -> IF version = V2_CURRENT THEN 4 ELSE 8
    [] OTHER -> 0

\* The pointer after an instruction whose opcode byte is at addr.
NextPointerOperandsOnly(addr, width) == addr + width

NextPointer(addr, width) == addr + 1 + width

\* args (and derived fields) of the instruction at addr; p = addr + 1.
\* No read of the source throws: a read past the end yields undefined, which
\* the bit arithmetic turns into 0, so the catch block never sets instr.error.
DecodeOperands(bc, p, base, version, map, ret) ==
  LET opName == base.opName IN
  CASE opName = "STACK_PUSH_STRING" ->
         [base EXCEPT !.args = << Arg("string_index", readDword(bc, p)) >>,
                      !.stringValue = StringOr(readDword(bc, p), "string_")]
    [] opName = "STACK_PUSH_DWORD" ->
         [base EXCEPT !.args = << Arg("dword", readSignedDword(bc, p)) >>]
    [] opName = "STACK_PUSH_DOUBLE" ->
         [base EXCEPT !.args = << Arg("double", readDouble(bc, p)) >>]
    [] opName = "STACK_PUSH_BOOLEAN" ->
         [base EXCEPT !.args = << Arg("boolean", ByteAt(bc, p) = 1) >>]
    [] opName \in {"UPDATE_PLUS", "UPDATE_MINUS", "PROP_UPDATE_PLUS",
                   "PROP_UPDATE_MINUS"} ->
         [base EXCEPT !.args = << Arg("prefix", ByteAt(bc, p) = 1),
                                  Arg("scope", readDword(bc, p + 1)),
                                  Arg("dest", readDword(bc, p + 5)) >>]
    [] opName \in {"COMPLEX_PROP_UPDATE_PLUS", "COMPLEX_PROP_UPDATE_MINUS"} ->
         [base EXCEPT !.args = << Arg("prefix", ByteAt(bc, p) = 1) >>]
    [] opName \in {"LOAD_VARIABLE", "STORE_VARIABLE"} ->
         [base EXCEPT !.args = << Arg("scope", readDword(bc, p)),
                                  Arg("dest", readDword(bc, p + 4)) >>]
    [] opName = "ASSIGN_VARIABLE" ->
         [base EXCEPT !.args =
            << Arg("is_op", ByteAt(bc, p)),
               Arg("scope", readDword(bc, p + 1)),
               Arg("dest", readDword(bc, p + 5)) >>
            \o (IF Or0(ByteAt(bc, p)) # 0
                THEN << Arg("assign_op",
                            getOpcodeName(ByteAt(bc, p + 9), map, ret)) >>
                ELSE << >>)]
    [] opName = "LOAD_ARGUMENT" ->
         [base EXCEPT !.args = << Arg("index", readDword(bc, p)) >>]
    [] opName \in {"CALL_FUNCTION", "CALL_METHOD", "CONSTRUCT"} ->
         [base EXCEPT !.args = << Arg("argc", readDword(bc, p)) >>]
    [] opName \in {"BUILD_ARRAY", "BUILD_OBJECT"} ->
         [base EXCEPT !.args = << Arg("length", readDword(bc, p)) >>]
    [] opName = "BUILD_FUNCTION" ->
         [base EXCEPT !.args = << Arg("fn_body_length", readDword(bc, p)) >>,
                      !.fnBody = [k \in 1..readDword(bc, p) |->
                                    ByteAt(bc, p + 4 + k - 1)],
                      !.detectedVersion = version]
    [] opName \in {"JUMP", "JUMP_IF_TRUE", "JUMP_IF_FALSE"} ->
         [base EXCEPT !.args = << Arg("address", readDword(bc, p)) >>]
    [] opName = "RETURN" ->
         [base EXCEPT !.args = << Arg("has_value", ByteAt(bc, p) = 1) >>]
    [] opName = "BUILD_REGEXP" ->
         IF version = V2_CURRENT
         THEN [base EXCEPT !.args = << Arg("has_flags", ByteAt(bc, p) = 1) >>]
         ELSE [base EXCEPT
                 !.args = << Arg("pattern_index", readDword(bc, p)),
                             Arg("flags_index", readDword(bc, p + 4)) >>,
                 !.patternValue = StringOr(readDword(bc, p), "pattern_"),
                 !.flagsValue = IF readDword(bc, p + 4) < Len(Strings)
                                THEN Strings[readDword(bc, p + 4) + 1] ELSE ""]
    [] opName = "TRY_PUSH" ->
         IF version = V2_CURRENT
         THEN [base EXCEPT !.args = << Arg("catch_addr", readDword(bc, p)) >>]
         ELSE [base EXCEPT !.args = << Arg("catch_addr", readDword(bc, p)),
                                       Arg("finally_addr", readDword(bc, p + 4)) >>]
    [] opName = "TRY_CATCH" ->
         [base EXCEPT !.args = << Arg("scope", readDword(bc, p)),
                                  Arg("var_slot", readDword(bc, p + 4)) >>]
    [] OTHER -> base

\* One iteration of the while loop of disassemble().
DecodeOne(bc, addr, version, map, ret) ==
  LET opcode == ByteAt(bc, addr)
      opName == getOpcodeName(opcode, map, ret)
      base   == Instr(addr, opcode, opName, << >>)
  IN [instr   |-> DecodeOperands(bc, addr + 1, base, version, map, ret),
      pointer |-> NextPointer(addr, OperandWidth(bc, addr + 1, opName, version))]

looksLikeBytecode(data, map) ==
  /\ Len(data) >= 4
  /\ data[1] \in DOMAIN map
  /\ LET n == Min(20, Len(data))
         valid == Cardinality({k \in 1..n : data[k] >= 0 /\ data[k] <= 80})
     IN valid * 10 >= n * 3

\* runtime/bytecodeReader.js decompressLZ77 (the token stream of the design's
\* wire format): groups of a flag byte and eight entries, LSB first; bit 1 is a
\* literal byte, bit 0 a back-reference (distance:u16LE, length:u16LE).
\* Copy byte k of a back-reference is the byte dist positions before its own
\* place in the output, so a copy longer than dist repeats its first dist
\* bytes; a place before the start of the output, or not yet written, reads 0.
CopyBack(out, dist, n) ==
  out \o [k \in 1..n |->
           LET first == IF dist >= 1 THEN ((k - 1) % dist) + 1 ELSE dist + 1
               src   == Len(out) + first - dist
           IN IF src >= 1 /\ src <= Len(out) THEN out[src] ELSE 0]

RECURSIVE lz77(_, _, _, _, _)
lz77(data, ip, out, flags, bits) ==
  IF ip >= Len(data) THEN out
  ELSE IF bits = 0 THEN lz77(data, ip + 1, out, data[ip + 1], 8)
  ELSE IF flags % 2 = 1
    THEN lz77(data, ip + 1, Append(out, data[ip + 1]), flags \div 2, bits - 1)
  ELSE IF ip + 4 > Len(data) THEN out
  ELSE lz77(data, ip + 4,
            CopyBack(out, data[ip + 1] + 256 * data[ip + 2],
                     data[ip + 3] + 256 * data[ip + 4]),
            flags \div 2, bits - 1)

decompressLZ77(data) == lz77(data, 0, << >>, 0, 0)

\* The length of decompressLZ77(data), without building it.
RECURSIVE lz77Size(_, _, _, _, _)
lz77Size(data, ip, n, flags, bits) ==
  IF ip >= Len(data) THEN n
  ELSE IF bits = 0 THEN lz77Size(data, ip + 1, n, data[ip + 1], 8)
  ELSE IF flags % 2 = 1 THEN lz77Size(data, ip + 1, n + 1, flags \div 2, bits - 1)
  ELSE IF ip + 4 > Len(data) THEN n
  ELSE lz77Size(data, ip + 4, n + data[ip + 3] + 256 * data[ip + 4],
                flags \div 2, bits - 1)

\* pako.inflate: zlib streams the model knows, with their contents; every other
\* vector of the model is no zlib stream (its first two bytes are no zlib
\* header) and makes inflate throw.
ZlibStream == << 120, 156, 243, 96, 0, 0, 0, 146, 0, 73 >>
ZlibContent == << 72, 0 >>
pakoInflate(data) ==
  IF data = ZlibStream THEN [threw |-> FALSE, out |-> ZlibContent]
  ELSE [threw |-> TRUE, out |-> << >>]

\* detectVersionAndDecompress(): the bytecode, pointer and version it leaves.
detectVersionAndDecompress(bc, map) ==
  LET n          == Len(bc)
      lastByte   == ByteAt(bc, n - 1)
      firstByte  == ByteAt(bc, 0)
      stripped   == Slice(bc, 0, n - 1)
      lz         == decompressLZ77(stripped)
      v2         == IF lastByte = 1
                    THEN Len(lz) > 0 /\ looksLikeBytecode(lz, map)
                    ELSE lastByte = 0 /\ looksLikeBytecode(stripped, map)
      inflated   == pakoInflate(Slice(bc, 1, n))
  IN IF v2
     THEN [bytecode |-> IF lastByte = 1 THEN lz ELSE stripped,
           pointer |-> 0, version |-> V2_CURRENT]
     ELSE IF firstByte = 1 /\ ~inflated.threw
     THEN [bytecode |-> inflated.out, pointer |-> 0, version |-> V1_LEGACY]
     ELSE [bytecode |-> bc, pointer |-> 1, version |-> V1_LEGACY]

(***************************************************************************)
(* The inputs of the disassembler.                                         *)
(***************************************************************************)
ByteVals == {0, 1, 3, 69, 72, 90}
DwordVals == {0, 1, 5}
Items == {<< b >> : b \in ByteVals} \cup {<< v, 0, 0, 0 >> : v \in DwordVals}

RECURSIVE VectorsOf(_)
VectorsOf(n) ==
  IF n = 0 THEN {<< >>}
  ELSE LET prev == VectorsOf(n - 1)
       IN prev \cup {v \o it : v \in prev, it \in Items}

\* An LZ77 token stream: four literals 0, 1, 5, 0 and a back-reference of
\* distance 1 and length 3; it decompresses to << 0, 1, 5, 0, 0, 0, 0 >>.
Lz77Stream == << 15, 0, 1, 5, 0, 1, 0, 3, 0 >>

\* V2 payloads of one BUILD_FUNCTION (opcode 3 of the shuffled map) whose body
\* holds a TRY_PUSH (opcode 69): the body ends in a 0 byte, or in a byte that
\* is no flag.
NestedTryPayloads ==
  { << 3, 5, 0, 0, 0 >> \o << 69, 5, 0, 0, 0 >> \o << 0 >>,
    << 3, 6, 0, 0, 0 >> \o << 69, 5, 0, 0, 0, 3 >> \o << 0 >> }

ByteVectors ==
  {v \in VectorsOf(MaxItems) \cup {<< 1 >> \o ZlibStream, Lz77Stream \o << 1 >>}
         \cup NestedTryPayloads :
     (Len(v) > 0 /\ v[Len(v)] = 1)
        => lz77Size(Slice(v, 0, Len(v) - 1), 0, 0, 0, 0) <= MaxDecompressed}

\* Opcode maps of two obfuscated files: the canonical numbering (no entry, the
\* disassembler falls back on OpcodeNames) and a shuffled one.
CanonicalMap == << >>
ShuffledMap ==
  (0 :> "STACK_POP") @@ (1 :> "JUMP_IF_FALSE") @@ (3 :> "BUILD_FUNCTION")
    @@ (69 :> "TRY_PUSH") @@ (72 :> "ASSIGN_VARIABLE")
OpcodeMaps == {CanonicalMap, ShuffledMap}
ReturnOpcodes == {Null, 90}

\* A file whose map also names BUILD_REGEXP, and one body in both wire layouts
\* holding every opcode whose operand width depends on the version or on its
\* own operands: TRY_PUSH, BUILD_REGEXP, ASSIGN_VARIABLE with is_op set and
\* clear, BUILD_FUNCTION with a two-byte body, then STACK_POP.  The V1 layout
\* starts with the flag byte and ends with a TRY_PUSH cut short; the V2 layout
\* ends with the flag byte.
WidthMap == ShuffledMap @@ (90 :> "BUILD_REGEXP")

AssignPair ==
  << 72, 1, 0, 0, 0, 0, 0, 0, 0, 0, 0 >> \o << 72, 0, 0, 0, 0, 0, 0, 0, 0, 0 >>

WidthPayloads ==
  { << 0 >> \o << 69, 5, 0, 0, 0, 0, 0, 0, 0 >>
           \o << 90, 0, 0, 0, 0, 0, 0, 0, 0 >> \o AssignPair
           \o << 3, 2, 0, 0, 0, 0, 0 >> \o << 0, 69 >>,
    << 69, 5, 0, 0, 0 >> \o << 90, 1 >> \o AssignPair
           \o << 3, 2, 0, 0, 0, 0, 0 >> \o << 0 >> \o << 0 >> }

(***************************************************************************)
(* Instruction streams.  A body is written as a list of operations         *)
(* [op, a, b] (a jump names its target by instruction index), laid out and  *)
(* encoded with the canonical opcode numbers, and handed to the             *)
(* disassembler behind the V1 flag byte 0, as index.js does with the bytes  *)
(* it extracts.                                                             *)
(***************************************************************************)
RECURSIVE DecodeFrom(_, _, _, _, _, _)
DecodeFrom(bc, p, version, map, ret, acc) ==
  IF p >= Len(bc) THEN acc
  ELSE LET d == DecodeOne(bc, p, version, map, ret)
       IN DecodeFrom(bc, d.pointer, version, map, ret, Append(acc, d.instr))

\* disassemble(): detection, then the decoding loop to its end.
disassemble(bc, map, ret) ==
  LET d == detectVersionAndDecompress(bc, map)
  IN DecodeFrom(d.bytecode, d.pointer, d.version, map, ret, << >>)

Op(op, a, b) == [op |-> op, a |-> a, b |-> b]
Dword(v) == << v, 0, 0, 0 >>

\* The bytes of one operation; target is the address a jump encodes.
Enc(o, target) ==
  << CanonicalCode(o.op) >> \o
  (CASE o.op \in {"JUMP", "JUMP_IF_TRUE", "JUMP_IF_FALSE"} -> Dword(target)
     [] o.op \in {"STACK_PUSH_STRING", "STACK_PUSH_DWORD", "LOAD_ARGUMENT",
                  "CALL_FUNCTION", "CALL_METHOD", "CONSTRUCT", "BUILD_ARRAY",
                  "BUILD_OBJECT"} -> Dword(o.a)
     [] o.op \in {"STACK_PUSH_BOOLEAN", "RETURN"} -> << o.a >>
     [] o.op \in {"LOAD_VARIABLE", "STORE_VARIABLE"} -> Dword(o.a) \o Dword(o.b)
     [] o.op = "ASSIGN_VARIABLE" -> << 0 >> \o Dword(o.a) \o Dword(o.b)
     [] o.op = "BUILD_FUNCTION" -> Dword(Len(o.a)) \o o.a
     [] OTHER -> << >>)

\* The address of operation k (0-based) of a body that starts at address 1;
\* k = Len(ops) gives the address after the last operation.
RECURSIVE AddrOf(_, _)
AddrOf(ops, k) ==
  IF k = 0 THEN 1 ELSE AddrOf(ops, k - 1) + Len(Enc(ops[k], 0))

\* The address a jump encodes: that of operation o.a, moved by o.b bytes; a
\* target index past the body is an address past its end.
TargetAddr(ops, o) ==
  IF o.op = "BUILD_FUNCTION" THEN 0
  ELSE IF o.a <= Len(ops) THEN AddrOf(ops, o.a) + o.b
  ELSE AddrOf(ops, Len(ops)) + (o.a - Len(ops)) + o.b

RECURSIVE EncodeFrom(_, _)
EncodeFrom(ops, k) ==
  IF k > Len(ops) THEN << >>
  ELSE Enc(ops[k], TargetAddr(ops, ops[k])) \o EncodeFrom(ops, k + 1)

Encode(ops) == << 0 >> \o EncodeFrom(ops, 1)

\* BUILD_FUNCTION with the bytes of the body ops as its nested payload.
Fn(body) == Op("BUILD_FUNCTION", EncodeFrom(body, 1), 0)

\* The instruction stream the decoding loop of disassemble() returns for a
\* body, read as V1 from behind the flag byte.
Assemble(ops) == DecodeFrom(Encode(ops), 1, V1_LEGACY, CanonicalMap, Null, << >>)

(***************************************************************************)
(* lib/cfg.js                                                              *)
(***************************************************************************)
\* addrToIdx.get(addr): Null for undefined.
addrToIdx(ins, addr) ==
  IF \E k \in DOMAIN ins : ins[k].addr = addr
  THEN (CHOOSE k \in DOMAIN ins :
          /\ ins[k].addr = addr
          /\ \A j \in DOMAIN ins : ins[j].addr = addr => j <= k) - 1
  ELSE Null

\* instr.args[0]?.value of a jump, looked up in addrToIdx.
TargetIdx(ins, i) == addrToIdx(ins, ins[i + 1].args[1].value)

\* [...set].sort((a, b) => a - b)
RECURSIVE SortedSeq(_)
SortedSeq(S) ==
  IF S = {} THEN << >>
  ELSE LET lo == CHOOSE x \in S : \A y \in S : x <= y
       IN << lo >> \o SortedSeq(S \ {lo})

\* build(), phase 1: the leaders.
Leaders(ins) ==
  {0}
  \cup {TargetIdx(ins, i) : i \in {j \in 0..(Len(ins) - 1) :
                                     IsJump(ins[j + 1]) /\ TargetIdx(ins, j) # Null}}
  \cup {i + 1 : i \in {j \in 0..(Len(ins) - 2) :
                         IsJump(ins[j + 1]) \/ ins[j + 1].opName = "RETURN"}}

\* build(), phase 2: block i spans sortedLeaders[i] .. the next leader - 1.
BlockBounds(ins) ==
  LET sl == SortedSeq(Leaders(ins))
  IN [i \in 1..Len(sl) |->
        [id |-> i - 1, startIdx |-> sl[i],
         endIdx |-> IF i < Len(sl) THEN sl[i + 1] - 1 ELSE Len(ins) - 1]]

\* idxToBlock.get(idx): the id of the block holding instruction idx.
idxToBlock(bounds, idx) ==
  IF \E k \in DOMAIN bounds : bounds[k].startIdx <= idx /\ idx <= bounds[k].endIdx
  THEN (CHOOSE k \in DOMAIN bounds :
          bounds[k].startIdx <= idx /\ idx <= bounds[k].endIdx) - 1
  ELSE Null

\* build(), phase 3: the successors one block pushes, in order.
SuccessorsFallThroughOnly(ins, bounds, b) ==
  IF b.endIdx + 1 < Len(ins) /\ idxToBlock(bounds, b.endIdx + 1) # Null
  THEN << idxToBlock(bounds, b.endIdx + 1) >> ELSE << >>

SuccessorsOf(ins, bounds, b) ==
  LET last        == ins[b.endIdx + 1]
      targetIdx   == TargetIdx(ins, b.endIdx)
      fallthrough == b.endIdx + 1
      target      == IF targetIdx # Null /\ idxToBlock(bounds, targetIdx) # Null
                     THEN << idxToBlock(bounds, targetIdx) >> ELSE << >>
      next        == IF fallthrough < Len(ins) /\ idxToBlock(bounds, fallthrough) # Null
                     THEN << idxToBlock(bounds, fallthrough) >> ELSE << >>
  IN CASE last.opName = "JUMP" -> target
       [] last.opName \in {"JUMP_IF_TRUE", "JUMP_IF_FALSE"} -> target \o next
       [] last.opName = "RETURN" -> << >>
       [] OTHER -> next

\* predecessors of block id: one entry per push, in the order of the edge loop
\* (blocks k, k + 1, ... of succs, the successors of every block).
RECURSIVE PredecessorsOf(_, _, _)
PredecessorsOf(succs, id, k) ==
  IF k > Len(succs) THEN << >>
  ELSE [j \in DOMAIN SelectSeq(succs[k], LAMBDA s : s = id) |-> k - 1]
         \o PredecessorsOf(succs, id, k + 1)

\* build(): the blocks with their edges, and the exit blocks.
build(ins) ==
  IF Len(ins) = 0
  THEN [blocks |-> << >>, exitBlocks |-> << >>, entryBlock |-> Null]
  ELSE
    Let(BlockBounds(ins), LAMBDA bounds :
    Let([k \in DOMAIN bounds |-> SuccessorsOf(ins, bounds, bounds[k])], LAMBDA succs :
    Let([k \in DOMAIN bounds |->
           LET b           == bounds[k]
               last        == ins[b.endIdx + 1]
               cond        == last.opName \in {"JUMP_IF_TRUE", "JUMP_IF_FALSE"}
               targetIdx   == TargetIdx(ins, b.endIdx)
               target      == IF targetIdx # Null
                              THEN idxToBlock(bounds, targetIdx) ELSE Null
               next        == IF b.endIdx + 1 < Len(ins)
                              THEN idxToBlock(bounds, b.endIdx + 1) ELSE Null
           IN [id |-> b.id, startIdx |-> b.startIdx, endIdx |-> b.endIdx,
               successors |-> succs[k],
               predecessors |-> PredecessorsOf(succs, b.id, 1),
               isConditional |-> cond,
               trueSuccessor |->
                  IF ~cond THEN Null
                  ELSE IF last.opName = "JUMP_IF_TRUE" THEN target ELSE next,
               falseSuccessor |->
                  IF ~cond THEN Null
                  ELSE IF last.opName = "JUMP_IF_TRUE" THEN next ELSE target]],
        LAMBDA blocks :
          [blocks |-> blocks,
           exitBlocks |->
              SelectSeq([k \in DOMAIN blocks |-> k - 1],
                        LAMBDA id :
                          LET last == ins[blocks[id + 1].endIdx + 1]
                          IN \/ last.opName = "RETURN"
                             \/ /\ ~IsJump(last)
                                /\ blocks[id + 1].endIdx + 1 >= Len(ins)),
           entryBlock |-> 0])))

BlockIds(g) == {g.blocks[k].id : k \in DOMAIN g.blocks}
Blk(g, id) == g.blocks[id + 1]

\* computeDominators(), lines 226-235: the new dominator set of one block.
NewDomKeepsSelfOnly(g, doms, b) == {b.id}

NewDom(g, doms, b) ==
  {id \in BlockIds(g) : \A k \in DOMAIN b.predecessors : id \in doms[b.predecessors[k]]}
    \cup {b.id}

\* One pass of the while loop of lines 221-243 from block k on, each block
\* seeing the sets the pass has already replaced.
RECURSIVE DomPass(_, _, _)
DomPass(g, doms, k) ==
  IF k > Len(g.blocks) THEN doms
  ELSE IF g.blocks[k].id = g.entryBlock THEN DomPass(g, doms, k + 1)
  ELSE DomPass(g, [doms EXCEPT ![g.blocks[k].id] = NewDom(g, doms, g.blocks[k])], k + 1)

RECURSIVE DomFix(_, _)
DomFix(g, doms) ==
  LET next == DomPass(g, doms, 1)
  IN IF next = doms THEN doms ELSE DomFix(g, next)

\* Lines 255-264: the new post-dominator set of one block.
NewPostDom(g, pdoms, b) ==
  {id \in BlockIds(g) : \A k \in DOMAIN b.successors : id \in pdoms[b.successors[k]]}
    \cup {b.id}

\* One pass of the while loop of lines 250-272, over the reversed block list.
RECURSIVE PostDomPass(_, _, _)
PostDomPass(g, pdoms, k) ==
  IF k < 1 THEN pdoms
  ELSE IF g.blocks[k].id \in Range(g.exitBlocks) THEN PostDomPass(g, pdoms, k - 1)
  ELSE PostDomPass(g, [pdoms EXCEPT ![g.blocks[k].id] = NewPostDom(g, pdoms, g.blocks[k])],
                   k - 1)

RECURSIVE PostDomFix(_, _)
PostDomFix(g, pdoms) ==
  LET next == PostDomPass(g, pdoms, Len(g.blocks))
  IN IF next = pdoms THEN pdoms ELSE PostDomFix(g, next)

\* Lines 280-300 and 302-320: the closest member of sets[id] other than id,
\* scanning the candidates in ascending id (the insertion order of the Set).
RECURSIVE Closest(_, _, _)
Closest(sets, cands, cur) ==
  IF cands = << >> THEN cur
  ELSE LET c == Head(cands)
       IN Closest(sets, Tail(cands),
                  IF cur = Null THEN c
                  ELSE IF cur \in sets[c] THEN cur
                  ELSE IF c \in sets[cur] THEN c
                  ELSE cur)

Immediate(sets, id) == Closest(sets, SortedSeq(sets[id] \ {id}), Null)

\* computeDominators(): the four maps it stores on the graph.
computeDominators(g) ==
  LET ids   == BlockIds(g)
      dom0  == [id \in ids |-> IF id = g.entryBlock THEN {id} ELSE ids]
      pdom0 == [id \in ids |-> IF id \in Range(g.exitBlocks) THEN {id} ELSE ids]
      dom   == DomFix(g, dom0)
      pdom  == PostDomFix(g, pdom0)
  IN [dominators |-> dom, postDominators |-> pdom,
      immediateDominators |-> [id \in ids |-> Immediate(dom, id)],
      immediatePostDominators |-> [id \in ids |-> Immediate(pdom, id)]]

\* collectBlocksUntil(): the blocks the traversal pushes to result; todo is
\* the queue, visited the ids already pushed.
RECURSIVE Collect(_, _, _, _, _)
Collect(g, todo, visited, endBlock, excludeSet) ==
  IF todo = << >> THEN visited
  ELSE LET id == Head(todo)
       IN IF id \in visited \/ id = endBlock \/ id \in excludeSet
          THEN Collect(g, Tail(todo), visited, endBlock, excludeSet)
          ELSE Collect(g,
                       Tail(todo) \o SelectSeq(Blk(g, id).successors,
                                               LAMBDA s : s \notin (visited \cup {id})
                                                          /\ s # endBlock),
                       visited \cup {id}, endBlock, excludeSet)

\* Block ids ascend with startIdx, so the final sort by startIdx is a sort by id.
collectBlocksUntil(g, startBlock, endBlock, excludeSet) ==
  IF startBlock = Null \/ startBlock = endBlock THEN << >>
  ELSE SortedSeq(Collect(g, << startBlock >>, {}, endBlock, excludeSet))

\* detectStructuredRegions() from block k on; acc is [regions, processed].
RECURSIVE RegionsFrom(_, _, _, _)
RegionsFrom(g, d, k, acc) ==
  IF k > Len(g.blocks) THEN acc.regions
  ELSE
    LET block == g.blocks[k]
        ipdom == d.immediatePostDominators[block.id]
        trueBlocks  == collectBlocksUntil(g, block.trueSuccessor, ipdom, acc.processed)
        falseBlocks == collectBlocksUntil(g, block.falseSuccessor, ipdom, acc.processed)
    IN IF /\ block.id \notin acc.processed
          /\ block.isConditional
          /\ block.trueSuccessor # Null
          /\ block.falseSuccessor # Null
          /\ ipdom # Null
          /\ (Len(trueBlocks) > 0 \/ Len(falseBlocks) > 0)
       THEN RegionsFrom(g, d, k + 1,
              [regions |-> Append(acc.regions,
                             [type |-> "if-else", conditionBlock |-> block.id,
                              trueBlocks |-> trueBlocks, falseBlocks |-> falseBlocks,
                              mergeBlock |-> ipdom, startIdx |-> block.startIdx,
                              endIdx |-> Blk(g, ipdom).startIdx]),
               processed |-> acc.processed \cup {block.id}
                               \cup Range(trueBlocks) \cup Range(falseBlocks)])
       ELSE RegionsFrom(g, d, k + 1, acc)

detectStructuredRegions(g, d) ==
  RegionsFrom(g, d, 1, [regions |-> << >>, processed |-> {}])

\* buildCFGRegions(): build, computeDominators, detectStructuredRegions.
buildCFGRegions(ins) ==
  Let(build(ins), LAMBDA g :
  Let(computeDominators(g), LAMBDA d :
    [built |-> TRUE, blocks |-> g.blocks, exitBlocks |-> g.exitBlocks,
     entryBlock |-> g.entryBlock,
     dominators |-> d.dominators, postDominators |-> d.postDominators,
     immediateDominators |-> d.immediateDominators,
     immediatePostDominators |-> d.immediatePostDominators,
     regions |-> detectStructuredRegions(g, d)]))

(***************************************************************************)
(* emission/controlFlowReconstructor.js                                    *)
(***************************************************************************)
IsCondJump(instr) == instr.opName \in {"JUMP_IF_TRUE", "JUMP_IF_FALSE"}

\* A loop object; the fields a pattern does not set are Null (undefined).
Loop(pattern, initJumpIdx, bodyStartIdx, condStartIdx, condJumpIdx, bodyEndIdx,
     backJumpIdx, exitIdx, isTrue) ==
  [type |-> "while", pattern |-> pattern, initJumpIdx |-> initJumpIdx,
   bodyStartIdx |-> bodyStartIdx, condStartIdx |-> condStartIdx,
   condEndIdx |-> condJumpIdx, condJumpIdx |-> condJumpIdx,
   bodyEndIdx |-> bodyEndIdx, backJumpIdx |-> backJumpIdx, exitIdx |-> exitIdx,
   isTrue |-> isTrue]

\* detectLoops(), line 63: the back-jump test of the v1 scan.
V1BackJumpAnywhere(backIdx, i) == backIdx # Null

V1BackJumpOk(backIdx, i) == backIdx # Null /\ backIdx <= i + 1

\* detectLoops(), lines 58-80: the scan from j for the conditional back-jump of
\* the JUMP at i; Null when the scan ends at a JUMP or at the end.
RECURSIVE V1Scan(_, _, _)
V1Scan(ins, i, j) ==
  IF j >= Len(ins) THEN Null
  ELSE IF IsCondJump(ins[j + 1]) /\ V1BackJumpOk(TargetIdx(ins, j), i) THEN j
  ELSE IF ins[j + 1].opName = "JUMP" THEN Null
  ELSE V1Scan(ins, i, j + 1)

\* The index of the v1 loop's conditional jump for the JUMP at i, or Null.
V1CondJump(ins, i) ==
  IF ins[i + 1].opName = "JUMP" /\ TargetIdx(ins, i) # Null /\ TargetIdx(ins, i) > i
  THEN V1Scan(ins, i, TargetIdx(ins, i))
  ELSE Null

RECURSIVE V1Loops(_, _)
V1Loops(ins, i) ==
  IF i >= Len(ins) THEN << >>
  ELSE (IF V1CondJump(ins, i) # Null
        THEN << Loop("v1", i, i + 1, TargetIdx(ins, i), V1CondJump(ins, i),
                     Null, Null, Null,
                     ins[V1CondJump(ins, i) + 1].opName = "JUMP_IF_TRUE") >>
        ELSE << >>) \o V1Loops(ins, i + 1)

\* detectLoops(), lines 92-131: the v2 test at the conditional jump i; used is
\* usedInstructions after the v1 pass.
IsV2Loop(ins, used, i) ==
  /\ i \notin used
  /\ IsCondJump(ins[i + 1])
  /\ TargetIdx(ins, i) # Null
  /\ TargetIdx(ins, i) > i
  /\ LET j == TargetIdx(ins, i) - 1
     IN /\ j >= i + 1
        /\ ins[j + 1].opName = "JUMP"
        /\ TargetIdx(ins, j) # Null
        /\ TargetIdx(ins, j) <= i

RECURSIVE V2Loops(_, _, _)
V2Loops(ins, used, i) ==
  IF i >= Len(ins) THEN << >>
  ELSE (IF IsV2Loop(ins, used, i)
        THEN << Loop("v2", Null, i + 1, TargetIdx(ins, TargetIdx(ins, i) - 1), i,
                     TargetIdx(ins, i) - 2, TargetIdx(ins, i) - 1,
                     TargetIdx(ins, i), ins[i + 1].opName = "JUMP_IF_TRUE") >>
        ELSE << >>) \o V2Loops(ins, used, i + 1)

detectLoops(ins) ==
  LET v1   == V1Loops(ins, 0)
      used == {v1[k].initJumpIdx : k \in DOMAIN v1} \cup {v1[k].condJumpIdx : k \in DOMAIN v1}
  IN v1 \o V2Loops(ins, used, 0)

\* A Map filled by set(key(e), e) over the entries of s in order: the last
\* entry of a key wins.
LastWith(s, key(_), k) ==
  s[CHOOSE j \in DOMAIN s : key(s[j]) = k /\ \A h \in DOMAIN s : key(s[h]) = k => h <= j]
MapBy(s, key(_)) == [k \in {key(s[j]) : j \in DOMAIN s} |-> LastWith(s, key, k)]

buildLoopMaps(ls) ==
  [loopsByInitJump  |-> MapBy(SelectSeq(ls, LAMBDA l : l.pattern = "v1"),
                              LAMBDA l : l.initJumpIdx),
   loopsByCondJump  |-> MapBy(ls, LAMBDA l : l.condJumpIdx),
   loopsByCondStart |-> MapBy(SelectSeq(ls, LAMBDA l : l.pattern = "v2"),
                              LAMBDA l : l.condStartIdx)]

\* buildRegionMap(): the if-else regions by the index of their conditional
\* jump, without the conditional jumps of loops.
buildRegionMap(g, ls) ==
  LET loopCondJumps == {ls[k].condJumpIdx : k \in DOMAIN ls}
      kept == SelectSeq(g.regions,
                LAMBDA r : Blk(g, r.conditionBlock).endIdx \notin loopCondJumps)
  IN MapBy(kept, LAMBDA r : Blk(g, r.conditionBlock).endIdx)

\* isTernaryPattern(), lines 231-241: the purity test of one branch.
StatementOps == {"STORE_VARIABLE", "SET_PROPERTY", "UNARY_THROW", "RETURN", "DEBUGGER"}

IsPureExprAny(ins, b) == TRUE

isPureExpr(ins, b) ==
  LET idxs == {j \in b.startIdx..b.endIdx : ins[j + 1].opName # "JUMP"}
  IN idxs # {} /\ \A j \in idxs : ins[j + 1].opName \notin StatementOps

isTernaryPattern(ins, g, region) ==
  /\ Len(region.trueBlocks) = 1
  /\ Len(region.falseBlocks) = 1
  /\ isPureExpr(ins, Blk(g, region.trueBlocks[1]))
  /\ isPureExpr(ins, Blk(g, region.falseBlocks[1]))

\* detectTernaryExpressions(): the regions of the map that are ternaries.
detectTernaryExpressions(ins, g, regionsByCondIdx) ==
  LET keys == {i \in DOMAIN regionsByCondIdx :
                 /\ Len(regionsByCondIdx[i].falseBlocks) > 0
                 /\ isTernaryPattern(ins, g, regionsByCondIdx[i])}
  IN [i \in keys |-> regionsByCondIdx[i]]

LogicalStatementOps ==
  StatementOps \cup {"JUMP", "JUMP_IF_TRUE", "JUMP_IF_FALSE", "TRY_PUSH", "TRY_POP"}

\* detectLogicalOperators(): the test at index i.
IsLogical(ins, i) ==
  /\ IsCondJump(ins[i + 1])
  /\ i > 0
  /\ ins[i].opName = "STACK_PUSH_DUPLICATE"
  /\ i + 1 < Len(ins)
  /\ ins[i + 2].opName = "STACK_POP"
  /\ TargetIdx(ins, i) # Null
  /\ TargetIdx(ins, i) > i + 1
  /\ \A j \in (i + 2)..(TargetIdx(ins, i) - 1) : ins[j + 1].opName \notin LogicalStatementOps

LogicalOperatorFlipped(opName) == IF opName = "JUMP_IF_FALSE" THEN "||" ELSE "&&"

\* const isAnd = instr.opName === 'JUMP_IF_FALSE'; operator: isAnd ? '&&' : '||'
LogicalOperator(opName) == IF opName = "JUMP_IF_FALSE" THEN "&&" ELSE "||"

detectLogicalOperators(ins) ==
  [i \in {j \in 0..(Len(ins) - 1) : IsLogical(ins, j)} |->
     [operator |-> LogicalOperator(ins[i + 1].opName),
      duplicateIdx |-> i - 1, jumpIdx |-> i, popIdx |-> i + 1,
      rightStartIdx |-> i + 2, rightEndIdx |-> TargetIdx(ins, i) - 1,
      targetIdx |-> TargetIdx(ins, i)]]

JumpArg(ins, i) == ins[i + 1].args[1].value

\* findUsedLabels(): the addresses that get a label line.
findUsedLabels(ins, ls, regionsByCondIdx, logicals) ==
  LET loopJumpTargets ==
        {JumpArg(ins, ls[k].condJumpIdx) : k \in DOMAIN ls}
        \cup {JumpArg(ins, ls[k].initJumpIdx) :
                k \in {h \in DOMAIN ls : ls[h].initJumpIdx # Null}}
        \cup {JumpArg(ins, ls[k].backJumpIdx) :
                k \in {h \in DOMAIN ls : ls[h].backJumpIdx # Null}}
        \cup {ins[ls[k].exitIdx + 1].addr :
                k \in {h \in DOMAIN ls : ls[h].exitIdx # Null}}
  IN {JumpArg(ins, i) :
        i \in {j \in 0..(Len(ins) - 1) :
                 /\ IsJump(ins[j + 1])
                 /\ JumpArg(ins, j) \notin loopJumpTargets
                 /\ j \notin DOMAIN regionsByCondIdx
                 /\ j \notin DOMAIN logicals}}

(***************************************************************************)
(* emission/stackMachine.js and emission/statementEmitter.js               *)
(*                                                                         *)
(* A JavaScript string is the sequence of its lines.  A symbolic stack     *)
(* entry carries its string (text) and what the regular expressions and    *)
(* startsWith tests of the source read from it:                            *)
(*   kind   "num"  the string matches ^-?\d+(\.\d+)?$                      *)
(*          "lit"  it is undefined, null, true or false                    *)
(*          "qstr" it is a double-quoted literal, whose content is inner   *)
(*          "expr" anything else                                           *)
(*   pre    "undefined" / "null" when the string starts with that word     *)
(*   ident  the string (inner, for "qstr") matches ^[a-zA-Z_$][\w$]*$      *)
(***************************************************************************)
T(s) == << s >>

\* The concatenation of two strings.
Cat(a, b) == SubSeq(a, 1, Len(a) - 1) \o << a[Len(a)] \o b[1] >> \o Tail(b)

RECURSIVE CatAll(_)
CatAll(parts) ==
  IF Len(parts) = 1 THEN parts[1] ELSE Cat(parts[1], CatAll(Tail(parts)))

\* array.join(sep) of strings.
RECURSIVE Join(_, _)
Join(texts, sep) ==
  IF texts = << >> THEN T("")
  ELSE IF Len(texts) = 1 THEN texts[1]
  ELSE CatAll(<< texts[1], T(sep), Join(Tail(texts), sep) >>)

Val(text, kind, pre, ident, inner) ==
  [text |-> text, kind |-> kind, pre |-> pre, ident |-> ident, inner |-> inner]

Expr(text) == Val(text, "expr", "", FALSE, "")
Ident(name) == Val(T(name), "expr", "", TRUE, "")
Num(n) == Val(T(ToString(n)), "num", "", FALSE, "")
Undefined == Val(T("undefined"), "lit", "undefined", TRUE, "")
NullLit == Val(T("null"), "lit", "null", TRUE, "")
Bool(b) == Val(T(IF b THEN "true" ELSE "false"), "lit", "", TRUE, "")
\* JSON.stringify(s) of a string without characters to escape.
QStr(s, ident) == Val(T("\"" \o s \o "\""), "qstr", "", ident, s)
\* A string that starts with the string of base.
Led(text, base) == Val(text, "expr", base.pre, FALSE, "")

\* stack.pop() || dflt, and the stack after the pop.
PopOr(st, dflt) == IF st = << >> THEN dflt ELSE st[Len(st)]
Rest(st) == IF st = << >> THEN << >> ELSE SubSeq(st, 1, Len(st) - 1)

\* formatString(): the strings of the table are identifiers, the placeholder
\* [string_N] of the disassembler is not.
formatString(instr) ==
  QStr(instr.stringValue, instr.stringValue \in Range(Strings))

\* formatNumber(); the doubles of the model are 0.0.
formatNumber(instr) ==
  IF instr.args[1].type = "double" THEN Num(0) ELSE Num(instr.args[1].value)

formatBoolean(instr) == Bool(instr.args[1].value)

\* buildBinaryExpression(), lines 66-70: the pushed string.
BinaryTextSwappedRoles(first, second, operator, swapped) ==
  IF swapped
  THEN CatAll(<< T("("), first.text, T(" " \o operator \o " "), second.text, T(")") >>)
  ELSE CatAll(<< T("("), second.text, T(" " \o operator \o " "), first.text, T(")") >>)

BinaryText(first, second, operator, swapped) ==
  IF swapped
  THEN CatAll(<< T("("), second.text, T(" " \o operator \o " "), first.text, T(")") >>)
  ELSE CatAll(<< T("("), first.text, T(" " \o operator \o " "), second.text, T(")") >>)

buildBinaryExpression(st, operator, swapped, leftDefault, rightDefault) ==
  LET first  == PopOr(st, leftDefault)
      second == PopOr(Rest(st), rightDefault)
  IN Append(Rest(Rest(st)), Expr(BinaryText(first, second, operator, swapped)))

buildUnaryExpression(st, operator, defaultVal) ==
  Append(Rest(st), Expr(CatAll(<< T("(" \o operator), PopOr(st, defaultVal).text, T(")") >>)))

\* key.startsWith('"') ? key.slice(1, -1) : key, and the identifier test on it.
Unquoted(key) == IF key.kind = "qstr" THEN T(key.inner) ELSE key.text

buildPropertyAccess(st) ==
  LET key == PopOr(st, Ident("prop"))
      obj == PopOr(Rest(st), Ident("obj"))
  IN Append(Rest(Rest(st)),
       IF key.ident /\ key.kind = "qstr"
       THEN Led(CatAll(<< obj.text, T("."), Unquoted(key) >>), obj)
       ELSE Led(CatAll(<< obj.text, T("["), key.text, T("]") >>), obj))

\* for (j < argc) args.push(stack.pop() || 'undefined')
RECURSIVE PopArgs(_, _)
PopArgs(st, argc) ==
  IF argc <= 0 THEN [args |-> << >>, stack |-> st]
  ELSE LET r == PopArgs(Rest(st), argc - 1)
       IN [args |-> << PopOr(st, Undefined).text >> \o r.args, stack |-> r.stack]

buildMethodCall(st, argc) ==
  LET key == PopOr(st, Ident("method"))
      obj == PopOr(Rest(st), Ident("obj"))
      r   == PopArgs(Rest(Rest(st)), argc)
  IN Append(r.stack,
       IF key.ident
       THEN Led(CatAll(<< obj.text, T("."), Unquoted(key), T("("),
                          Join(r.args, ", "), T(")") >>), obj)
       ELSE Led(CatAll(<< obj.text, T("["), key.text, T("]("),
                          Join(r.args, ", "), T(")") >>), obj))

buildFunctionCall(st, argc) ==
  LET fn == PopOr(st, Ident("fn"))
      r  == PopArgs(Rest(st), argc)
  IN Append(r.stack, Led(CatAll(<< fn.text, T("("), Join(r.args, ", "), T(")") >>), fn))

buildConstruct(st, argc) ==
  LET cls == PopOr(st, Ident("Object"))
      r   == PopArgs(Rest(st), argc)
  IN Append(r.stack,
            Expr(CatAll(<< T("new "), cls.text, T("("), Join(r.args, ", "), T(")") >>)))

buildArray(st, length) ==
  LET r == PopArgs(st, length)
  IN Append(r.stack, Expr(CatAll(<< T("["), Join(r.args, ", "), T("]") >>)))

\* buildObject(): value and key pairs, popped length times.
RECURSIVE PopProps(_, _)
PopProps(st, length) ==
  IF length <= 0 THEN [args |-> << >>, stack |-> st]
  ELSE LET value == PopOr(st, Undefined)
           key   == PopOr(Rest(st), QStr("key", TRUE))
           r     == PopProps(Rest(Rest(st)), length - 1)
           prop  == IF key.ident
                    THEN CatAll(<< Unquoted(key), T(": "), value.text >>)
                    ELSE CatAll(<< T("["), key.text, T("]: "), value.text >>)
       IN [args |-> << prop >> \o r.args, stack |-> r.stack]

buildObject(st, length) ==
  LET r == PopProps(st, length)
  IN Append(r.stack, Expr(CatAll(<< T("{ "), Join(r.args, ", "), T(" }") >>)))

buildGlobalPropAccess(st) ==
  LET name == PopOr(st, Undefined)
  IN Append(Rest(st),
       IF name.kind = "qstr" /\ name.ident THEN Ident(name.inner)
       ELSE Expr(CatAll(<< T("globalThis["), name.text, T("]") >>)))

\* isTrivialValue(): an entry is never the empty string.
isTrivialValue(expr) == expr.kind \in {"num", "lit"}

\* shouldEmitCallResult()
shouldEmitCallResult(result) == result.kind \notin {"num", "lit"}

getConsumeOps ==
  { "ARITHMETIC_ADD", "ARITHMETIC_SUB", "ARITHMETIC_MUL", "ARITHMETIC_DIV",
    "ARITHMETIC_MOD", "COMPARISON_EQUAL", "COMPARISON_STRICT_EQUAL",
    "COMPARISON_NOT_EQUAL", "COMPARISON_STRICT_NOT_EQUAL", "COMPARISON_LESS",
    "COMPARISON_LESS_OR_EQUAL", "COMPARISON_GREATER", "COMPARISON_GREATER_OR_EQUAL",
    "BINARY_BIT_AND", "BINARY_BIT_OR", "BINARY_BIT_XOR",
    "GET_PROPERTY", "SET_PROPERTY", "CALL_METHOD",
    "STORE_VARIABLE", "ASSIGN_VARIABLE" }

getCallOps == {"CALL_FUNCTION", "CALL_METHOD", "CONSTRUCT"}

(***************************************************************************)
(* lib/codeGenerator.js: the generator object and processInstruction.      *)
(* exc holds the message of an exception in flight (<< >> when none).      *)
(***************************************************************************)
NewGenerator(indent, varCounter) ==
  [output |-> << >>, indent |-> indent, varCounter |-> varCounter,
   scopeVarNames |-> [k \in {} |-> ""], pendingReturn |-> << >>, exc |-> << >>]

Throw(g, message) == [g EXCEPT !.exc = << message >>]
Threw(g) == g.exc # << >>

RECURSIVE IndentStr(_)
IndentStr(n) == IF n <= 0 THEN "" ELSE "  " \o IndentStr(n - 1)

\* StatementEmitter.emit(): '  '.repeat(indent) raises a RangeError on a
\* negative count.
emit(g, line) ==
  IF g.indent < 0 THEN Throw(g, "Invalid count value: " \o ToString(g.indent))
  ELSE [g EXCEPT !.output = g.output \o Cat(T(IndentStr(g.indent)), line)]

emitVariableDeclaration(g, varName, value) ==
  emit(g, CatAll(<< T("var " \o varName \o " = "), value.text, T(";") >>))

emitPropertyAssignment(g, obj, key, value) ==
  IF key.ident /\ key.kind = "qstr"
  THEN emit(g, CatAll(<< obj.text, T("."), Unquoted(key), T(" = "), value.text, T(";") >>))
  ELSE emit(g, CatAll(<< obj.text, T("["), key.text, T("] = "), value.text, T(";") >>))

emitExpression(g, expr) == emit(g, Cat(expr.text, T(";")))

emitIfStart(g, condition) ==
  LET e == emit(g, CatAll(<< T("if ("), condition.text, T(") {") >>))
  IN IF Threw(e) THEN e ELSE [e EXCEPT !.indent = e.indent + 1]

emitWhileStart(g, condition) ==
  LET e == emit(g, CatAll(<< T("while ("), condition.text, T(") {") >>))
  IN IF Threw(e) THEN e ELSE [e EXCEPT !.indent = e.indent + 1]

emitWhileEndKeepsIndent(g) == emit(g, T("}"))

emitWhileEnd(g) == emit([g EXCEPT !.indent = g.indent - 1], T("}"))

\* emitReturn() returns the line; it emits nothing.
emitReturn(value, hasValue) ==
  IF hasValue THEN CatAll(<< T("return "), value.text, T(";") >>) ELSE T("return;")

emitThrow(g, err) == emit(g, CatAll(<< T("throw "), err.text, T(";") >>))
emitDebugger(g) == emit(g, T("debugger;"))
emitLabel(g, label) == emit(g, T(label \o ":"))

generateLabel(addr) == "label_" \o ToString(addr)

emitConditionalJump(g, condition, label, isTrue) ==
  IF isTrue
  THEN emit(g, CatAll(<< T("if ("), condition.text, T(") { /* goto " \o label \o " */ }") >>))
  ELSE emit(g, CatAll(<< T("if (!("), condition.text,
                         T(")) { /* goto " \o label \o " */ }") >>))

emitError(g, message) == emit(g, T("/* " \o message \o " */"))

\* getVarName() without the lookup of the key: a name is minted at every call.
getVarNameFresh(g, scopeId, varId) ==
  LET scope == IF scopeId = Null \/ scopeId > 1000 THEN 0 ELSE scopeId
      key   == ToString(scope) \o "_" \o ToString(varId)
  IN IF varId = Null \/ varId > 10000
     THEN [name |-> "var_unknown_" \o ToString(g.varCounter),
           gen  |-> [g EXCEPT !.varCounter = g.varCounter + 1]]
     ELSE [name |-> "var_" \o ToString(g.varCounter),
           gen  |-> [g EXCEPT !.varCounter = g.varCounter + 1,
                              !.scopeVarNames =
                                 (key :> ("var_" \o ToString(g.varCounter)))
                                   @@ g.scopeVarNames]]

\* getVarName(): the name and the generator after the call.
getVarName(g, scopeId, varId) ==
  LET scope == IF scopeId = Null \/ scopeId > 1000 THEN 0 ELSE scopeId
      key   == ToString(scope) \o "_" \o ToString(varId)
  IN IF varId = Null \/ varId > 10000
     THEN [name |-> "var_unknown_" \o ToString(g.varCounter),
           gen  |-> [g EXCEPT !.varCounter = g.varCounter + 1]]
     ELSE IF key \in DOMAIN g.scopeVarNames
     THEN [name |-> g.scopeVarNames[key], gen |-> g]
     ELSE [name |-> "var_" \o ToString(g.varCounter),
           gen  |-> [g EXCEPT !.varCounter = g.varCounter + 1,
                              !.scopeVarNames =
                                 (key :> ("var_" \o ToString(g.varCounter)))
                                   @@ g.scopeVarNames]]

\* instr.args[k]?.value (k 0-based): Null for undefined.
ArgValue(instr, k) == IF k < Len(instr.args) THEN instr.args[k + 1].value ELSE Null

buildUpdateExpression(S, instr, isPlus) ==
  LET v  == getVarName(S.gen, ArgValue(instr, 1), ArgValue(instr, 2))
      op == IF isPlus THEN "++" ELSE "--"
  IN [stack |-> Append(S.stack,
                  Expr(T(IF ArgValue(instr, 0)
                         THEN "(" \o op \o v.name \o ")"
                         ELSE "(" \o v.name \o op \o ")"))),
      gen |-> v.gen]

buildPropUpdateExpression(S, instr, isPlus) ==
  LET prop == PopOr(S.stack, Ident("prop"))
      v    == getVarName(S.gen, ArgValue(instr, 1), ArgValue(instr, 2))
      op   == IF isPlus THEN "++" ELSE "--"
  IN [stack |-> Append(Rest(S.stack),
                  Expr(IF ArgValue(instr, 0)
                       THEN CatAll(<< T("(" \o op \o v.name \o "["), prop.text, T("])") >>)
                       ELSE CatAll(<< T("(" \o v.name \o "["), prop.text,
                                      T("]" \o op \o ")") >>))),
      gen |-> v.gen]

buildComplexPropUpdateExpression(S, instr, isPlus) ==
  LET prop == PopOr(S.stack, Ident("prop"))
      obj  == PopOr(Rest(S.stack), Ident("obj"))
      op   == IF isPlus THEN "++" ELSE "--"
  IN [stack |-> Append(Rest(Rest(S.stack)),
                  Expr(IF ArgValue(instr, 0)
                       THEN CatAll(<< T("(" \o op), obj.text, T("["), prop.text, T("])") >>)
                       ELSE CatAll(<< T("("), obj.text, T("["), prop.text,
                                      T("]" \o op \o ")") >>))),
      gen |-> S.gen]

AssignOperator(assignOp) ==
  CASE assignOp = "ADD_ASSIGN_VARIABLE" -> "+="
    [] assignOp = "SUB_ASSIGN_VARIABLE" -> "-="
    [] assignOp = "MUL_ASSIGN_VARIABLE" -> "*="
    [] assignOp = "DIV_ASSIGN_VARIABLE" -> "/="
    [] assignOp = "MOD_ASSIGN_VARIABLE" -> "%="
    [] assignOp = "BIT_SHIFT_LEFT_ASSIGN_VARIABLE" -> "<<="
    [] assignOp = "BIT_SHIFT_RIGHT_ASSIGN_VAIRABLE" -> ">>="
    [] assignOp = "UNSIGNED_BIT_SHIFT_RIGHT_ASSIGN_VARIABLE" -> ">>>="
    [] assignOp = "BIT_XOR_ASSIGN_VARIABLE" -> "^="
    [] assignOp = "BIT_AND_ASSIGN_VARIABLE" -> "&="
    [] assignOp = "BIT_OR_ASSIGN_VARIABLE" -> "|="
    [] OTHER -> "="

buildAssignmentExpression(S, instr) ==
  LET value == PopOr(S.stack, Undefined)
      v     == getVarName(S.gen, ArgValue(instr, 1), ArgValue(instr, 2))
      op    == IF ArgValue(instr, 0) \notin {0, Null} /\ Len(instr.args) > 3
               THEN AssignOperator(instr.args[4].value) ELSE "="
  IN [stack |-> Append(Rest(S.stack),
                  Expr(CatAll(<< T("(" \o v.name \o " " \o op \o " "), value.text, T(")") >>))),
      gen |-> v.gen]

\* The operator string of a binary opcode.
BinaryOperator(opName) ==
  CASE opName = "ARITHMETIC_ADD" -> "+"
    [] opName = "ARITHMETIC_SUB" -> "-"
    [] opName = "ARITHMETIC_MUL" -> "*"
    [] opName = "ARITHMETIC_DIV" -> "/"
    [] opName = "ARITHMETIC_MOD" -> "%"
    [] opName = "COMPARISON_EQUAL" -> "=="
    [] opName = "COMPARISON_STRICT_EQUAL" -> "==="
    [] opName = "COMPARISON_NOT_EQUAL" -> "!="
    [] opName = "COMPARISON_STRICT_NOT_EQUAL" -> "!=="
    [] opName = "COMPARISON_LESS" -> "<"
    [] opName = "COMPARISON_LESS_OR_EQUAL" -> "<="
    [] opName = "COMPARISON_GREATER" -> ">"
    [] opName = "COMPARISON_GREATER_OR_EQUAL" -> ">="
    [] opName = "BINARY_BIT_SHIFT_LEFT" -> "<<"
    [] opName = "BINARY_BIT_SHIFT_RIGHT" -> ">>"
    [] opName = "BINARY_UNSIGNED_BIT_SHIFT_RIGHT" -> ">>>"
    [] opName = "BINARY_BIT_XOR" -> "^"
    [] opName = "BINARY_BIT_AND" -> "&"
    [] opName = "BINARY_BIT_OR" -> "|"
    [] opName = "BINARY_IN" -> "in"
    [] opName = "BINARY_INSTANCEOF" -> "instanceof"

BinaryOps ==
  { "ARITHMETIC_ADD", "ARITHMETIC_SUB", "ARITHMETIC_MUL", "ARITHMETIC_DIV",
    "ARITHMETIC_MOD", "COMPARISON_EQUAL", "COMPARISON_STRICT_EQUAL",
    "COMPARISON_NOT_EQUAL", "COMPARISON_STRICT_NOT_EQUAL", "COMPARISON_LESS",
    "COMPARISON_LESS_OR_EQUAL", "COMPARISON_GREATER", "COMPARISON_GREATER_OR_EQUAL",
    "BINARY_BIT_SHIFT_LEFT", "BINARY_BIT_SHIFT_RIGHT",
    "BINARY_UNSIGNED_BIT_SHIFT_RIGHT", "BINARY_BIT_XOR", "BINARY_BIT_AND",
    "BINARY_BIT_OR", "BINARY_IN", "BINARY_INSTANCEOF" }

\* generate(), processBlockSequence() and processInstruction() call one
\* another: one operator, Run, evaluates a call of any of them, given as a
\* record.
RECURSIVE Run(_)

\* new CodeGenerator(ins, strings, map, null, sw).generate() on a generator
\* whose indent and varCounter were set as in g0: the generator at the end.
generate(ins, g0, sw, map) ==
  Run([kind |-> "generate", instructions |-> ins, gen |-> g0,
       swappedOpcodes |-> sw, opcodeMap |-> map])

\* processInstruction(instr, stack): the stack and the generator after it; an
\* exception it raises is left in gen.exc.  cx is what the methods of the
\* generator read (Context, below).
processInstruction(instr, S, cx) ==
  Run([kind |-> "processInstruction", instr |-> instr, S |-> S, cx |-> cx])

\* processBlockSequence(blocks, blockStack, ..., isTernary, ...); active is the
\* block lists of the calls it is nested in.
processBlockSequence(cx, blocks, S, isTernary, active) ==
  Run([kind |-> "processBlockSequence", cx |-> cx, blocks |-> blocks, S |-> S,
       isTernary |-> isTernary, active |-> active])

\* One iteration of the main loop of generate() at index i: the next index,
\* the stack and the generator, and which branch ran.
MainStep(cx, i, S0) ==
  Run([kind |-> "MainStep", cx |-> cx, i |-> i, S |-> S0])


\* Array.split('\n') of output.join('\n'): an empty output is one empty line.
OutputLines(g) == IF g.output = << >> THEN << "" >> ELSE g.output

\* buildFunctionBody() with a nested generator that counts from 0 and a
\* caller that keeps its own counter.
buildFunctionBodyOwnCounter(instr, map, currentIndent, varCounter) ==
  Let(generate(disassemble(<< 0 >> \o [k \in DOMAIN instr.fnBody |-> Or0(instr.fnBody[k])],
                           map, Null),
               NewGenerator(currentIndent + 1, 0), {}, map),
      LAMBDA subGen :
        IF Threw(subGen)
        THEN [threw |-> TRUE, message |-> subGen.exc[1],
              code |-> Undefined, newVarCounter |-> varCounter]
        ELSE IF currentIndent < 0
        THEN [threw |-> TRUE,
              message |-> "Invalid count value: " \o ToString(currentIndent),
              code |-> Undefined, newVarCounter |-> varCounter]
        ELSE [threw |-> FALSE, message |-> "",
              code |-> Expr(<< "function() {" >>
                              \o [k \in DOMAIN OutputLines(subGen) |->
                                    "  " \o OutputLines(subGen)[k]]
                              \o << IndentStr(currentIndent) \o "}" >>),
              newVarCounter |-> varCounter])

\* StatementEmitter.buildFunctionBody(): the nested body is disassembled behind
\* a flag byte 0 with the caller's opcode map and lifted by a new generator
\* that gets neither the return opcode nor the swapped opcodes.
buildFunctionBody(instr, map, currentIndent, varCounter) ==
  Let(generate(disassemble(<< 0 >> \o [k \in DOMAIN instr.fnBody |-> Or0(instr.fnBody[k])],
                           map, Null),
               NewGenerator(currentIndent + 1, varCounter), {}, map),
      LAMBDA subGen :
        IF Threw(subGen)
        THEN [threw |-> TRUE, message |-> subGen.exc[1],
              code |-> Undefined, newVarCounter |-> varCounter]
        ELSE IF currentIndent < 0
        THEN [threw |-> TRUE,
              message |-> "Invalid count value: " \o ToString(currentIndent),
              code |-> Undefined, newVarCounter |-> varCounter]
        ELSE [threw |-> FALSE, message |-> "",
              code |-> Expr(<< "function() {" >>
                              \o [k \in DOMAIN OutputLines(subGen) |->
                                    "  " \o OutputLines(subGen)[k]]
                              \o << IndentStr(currentIndent) \o "}" >>),
              newVarCounter |-> subGen.varCounter])

St(stk, g) == [stack |-> stk, gen |-> g]

\* cleanStringValue(stack.pop())
CleanTop(st) ==
  IF st = << >> THEN T("")
  ELSE IF st[Len(st)].kind = "qstr" THEN T(st[Len(st)].inner) ELSE st[Len(st)].text

\* processInstruction(), lines 1269-1624: the switch on instr.opName.
processInstructionSwitch(instr, S, cx) ==
  LET st      == S.stack
      g       == S.gen
      op      == instr.opName
      swapped == instr.opcode \in cx.swappedOpcodes
  IN
  CASE op = "STACK_PUSH_STRING" -> St(Append(st, formatString(instr)), g)
    [] op \in {"STACK_PUSH_DWORD", "STACK_PUSH_DOUBLE"} ->
         St(Append(st, formatNumber(instr)), g)
    [] op = "STACK_PUSH_BOOLEAN" -> St(Append(st, formatBoolean(instr)), g)
    [] op = "STACK_PUSH_NULL" -> St(Append(st, NullLit), g)
    [] op = "STACK_PUSH_UNDEFINED" -> St(Append(st, Undefined), g)
    [] op = "STACK_PUSH_DUPLICATE" ->
         IF Len(st) > 0 THEN St(Append(st, st[Len(st)]), g) ELSE S
    [] op = "STACK_POP" ->
         IF Len(st) = 0 THEN S
         ELSE IF isTrivialValue(st[Len(st)]) THEN St(Rest(st), g)
         ELSE St(Rest(st), emitExpression(g, st[Len(st)]))
    [] op = "BINARY_IN" ->
         St(buildBinaryExpression(st, "in", swapped, QStr("", FALSE), Expr(T("{}"))), g)
    [] op = "BINARY_INSTANCEOF" ->
         St(buildBinaryExpression(st, "instanceof", swapped, NullLit, Ident("Object")), g)
    [] op \in BinaryOps \ {"BINARY_IN", "BINARY_INSTANCEOF"} ->
         St(buildBinaryExpression(st, BinaryOperator(op), swapped, Num(0), Num(0)), g)
    [] op = "UNARY_PLUS" -> St(buildUnaryExpression(st, "+", Num(0)), g)
    [] op = "UNARY_MINUS" -> St(buildUnaryExpression(st, "-", Num(0)), g)
    [] op = "UNARY_NOT" -> St(buildUnaryExpression(st, "!", Bool(FALSE)), g)
    [] op = "UNARY_BIT_NOT" -> St(buildUnaryExpression(st, "~", Num(0)), g)
    [] op = "UNARY_TYPEOF" -> St(buildUnaryExpression(st, "typeof ", Undefined), g)
    [] op = "UNARY_VOID" -> St(buildUnaryExpression(st, "void ", Undefined), g)
    [] op = "UNARY_THROW" ->
         St(Rest(st), emitThrow(g, PopOr(st, Expr(T("new Error()")))))
    [] op = "UPDATE_PLUS" -> buildUpdateExpression(S, instr, TRUE)
    [] op = "UPDATE_MINUS" -> buildUpdateExpression(S, instr, FALSE)
    [] op \in {"PROP_UPDATE_PLUS", "PROP_UPDATE_MINUS"} ->
         buildPropUpdateExpression(S, instr, op = "PROP_UPDATE_PLUS")
    [] op \in {"COMPLEX_PROP_UPDATE_PLUS", "COMPLEX_PROP_UPDATE_MINUS"} ->
         buildComplexPropUpdateExpression(S, instr, op = "COMPLEX_PROP_UPDATE_PLUS")
    [] op = "LOAD_VARIABLE" ->
         LET v == getVarName(g, ArgValue(instr, 0), ArgValue(instr, 1))
         IN St(Append(st, Ident(v.name)), v.gen)
    [] op = "STORE_VARIABLE" ->
         LET v == getVarName(g, ArgValue(instr, 0), ArgValue(instr, 1))
         IN St(Rest(st), emitVariableDeclaration(v.gen, v.name, PopOr(st, Undefined)))
    [] op = "ASSIGN_VARIABLE" -> buildAssignmentExpression(S, instr)
    [] op = "LOAD_GLOBAL" -> St(Append(st, Ident("globalThis")), g)
    [] op = "LOAD_GLOBAL_PROP" -> St(buildGlobalPropAccess(st), g)
    [] op = "LOAD_THIS" -> St(Append(st, Ident("this")), g)
    [] op = "LOAD_ARGUMENT" ->
         St(Append(st, Expr(T("arguments[" \o ToString(ArgValue(instr, 0)) \o "]"))), g)
    [] op = "LOAD_ARGUMENTS" -> St(Append(st, Ident("arguments")), g)
    [] op = "CALL_FUNCTION" -> St(buildFunctionCall(st, ArgValue(instr, 0)), g)
    [] op = "CALL_METHOD" -> St(buildMethodCall(st, ArgValue(instr, 0)), g)
    [] op = "CONSTRUCT" -> St(buildConstruct(st, ArgValue(instr, 0)), g)
    [] op = "GET_PROPERTY" -> St(buildPropertyAccess(st), g)
    [] op = "SET_PROPERTY" ->
         LET value == PopOr(st, Undefined)
             key   == PopOr(Rest(st), Ident("prop"))
             obj   == PopOr(Rest(Rest(st)), Ident("obj"))
             e     == emitPropertyAssignment(g, obj, key, value)
         IN IF Threw(e) THEN St(Rest(Rest(Rest(st))), e)
            ELSE St(Append(Rest(Rest(Rest(st))), obj), e)
    [] op = "BUILD_ARRAY" -> St(buildArray(st, ArgValue(instr, 0)), g)
    [] op = "BUILD_OBJECT" -> St(buildObject(st, ArgValue(instr, 0)), g)
    [] op = "BUILD_FUNCTION" ->
         Let(buildFunctionBody(instr, cx.opcodeMap, g.indent, g.varCounter),
             LAMBDA r :
               IF r.threw THEN St(st, Throw(g, r.message))
               ELSE St(Append(st, r.code), [g EXCEPT !.varCounter = r.newVarCounter]))
    [] op = "JUMP" -> S
    [] op = "JUMP_IF_TRUE" ->
         St(Rest(st), emitConditionalJump(g, PopOr(st, Bool(TRUE)),
                                          generateLabel(ArgValue(instr, 0)), TRUE))
    [] op = "JUMP_IF_FALSE" ->
         St(Rest(st), emitConditionalJump(g, PopOr(st, Bool(FALSE)),
                                          generateLabel(ArgValue(instr, 0)), FALSE))
    [] op = "RETURN" ->
         IF ArgValue(instr, 0)
         THEN St(Rest(st), [g EXCEPT !.pendingReturn = emitReturn(PopOr(st, Undefined), TRUE)])
         ELSE St(st, [g EXCEPT !.pendingReturn = emitReturn(Undefined, FALSE)])
    [] op = "DEBUGGER" -> St(st, emitDebugger(g))
    [] op = "BUILD_REGEXP" ->
         \* The patterns of the model hold no '/' for line 1588 to escape.
         IF instr.args[1].type = "has_flags"
         THEN LET flags   == IF instr.args[1].value THEN CleanTop(st) ELSE T("")
                  st1     == IF instr.args[1].value THEN Rest(st) ELSE st
                  pattern == CleanTop(st1)
              IN St(Append(Rest(st1),
                           Expr(CatAll(<< T("/"), pattern, T("/"), flags >>))), g)
         ELSE St(Append(st, Expr(T("/" \o instr.patternValue \o "/" \o instr.flagsValue))), g)
    \* StatementEmitter defines no emitTryStart, emitCatchStart, emitFinallyStart:
    \* the call raises a TypeError.
    [] op = "TRY_PUSH" -> St(st, Throw(g, "this.emitter.emitTryStart is not a function"))
    [] op = "TRY_CATCH" ->
         LET v == getVarName(g, ArgValue(instr, 0), ArgValue(instr, 1))
         IN St(st, Throw(v.gen, "this.emitter.emitCatchStart is not a function"))
    [] op = "TRY_FINALLY" ->
         St(st, Throw(g, "this.emitter.emitFinallyStart is not a function"))
    [] op = UnknownName(instr.opcode) -> St(st, emitError(g, "Unknown opcode: " \o op))
    [] OTHER -> S

(***************************************************************************)
(* lib/codeGenerator.js: analyzeTryRegions() and the maps generate() builds *)
(* before its main loop.                                                   *)
(***************************************************************************)
\* analyzeTryRegions(), lines 744-766: the completed regions, in the order of
\* their TRY_POP.
RECURSIVE TryScan(_, _, _, _)
TryScan(ins, i, tryStack, regions) ==
  IF i >= Len(ins) THEN regions
  ELSE IF ins[i + 1].opName = "TRY_PUSH"
  THEN TryScan(ins, i + 1,
               Append(tryStack,
                      [tryStartIdx |-> i, catchAddr |-> ArgValue(ins[i + 1], 0),
                       catchAddrIdx |-> Null, tryEndIdx |-> Null,
                       catchEndIdx |-> Null, afterTryCatchAddr |-> Null]),
               regions)
  ELSE IF ins[i + 1].opName = "TRY_POP" /\ Len(tryStack) > 0
  THEN TryScan(ins, i + 1, Rest(tryStack),
               Append(regions,
                      [tryStack[Len(tryStack)] EXCEPT
                         !.tryEndIdx = i,
                         !.afterTryCatchAddr =
                            IF i + 1 < Len(ins) /\ ins[i + 2].opName = "JUMP"
                            THEN ArgValue(ins[i + 2], 0) ELSE Null]))
  ELSE TryScan(ins, i + 1, tryStack, regions)

\* The first index from lo on that satisfies P, or Null.
FirstIdx(ins, lo, P(_)) ==
  LET hits == {i \in lo..(Len(ins) - 1) : P(i)}
  IN IF hits = {} THEN Null ELSE CHOOSE i \in hits : \A h \in hits : i <= h

\* analyzeTryRegions(), lines 769-787: the indices of the catch block.
ResolveTry(ins, region) ==
  LET catchIdx ==
        IF region.catchAddr = Null THEN Null
        ELSE FirstIdx(ins, 0, LAMBDA i : ins[i + 1].addr = region.catchAddr)
      endIdx ==
        IF catchIdx = Null \/ region.afterTryCatchAddr = Null THEN Null
        ELSE FirstIdx(ins, catchIdx,
                      LAMBDA i : /\ ins[i + 1].opName = "JUMP"
                                 /\ ArgValue(ins[i + 1], 0) = region.afterTryCatchAddr)
  IN [region EXCEPT !.catchAddrIdx = catchIdx, !.catchEndIdx = endIdx]

analyzeTryRegions(ins) ==
  LET regions == TryScan(ins, 0, << >>, << >>)
  IN [k \in DOMAIN regions |-> ResolveTry(ins, regions[k])]

\* generate(), lines 836-864: the maps of the main loop.
GenerateMaps(ins, ls, g) ==
  Let(buildLoopMaps(ls), LAMBDA lm :
  Let(buildRegionMap(g, ls), LAMBDA rm :
  Let(detectLogicalOperators(ins), LAMBDA lg :
  Let(Range(analyzeTryRegions(ins)), LAMBDA try :
     [ready |-> TRUE,
      loopsByInitJump |-> lm.loopsByInitJump,
      loopsByCondJump |-> lm.loopsByCondJump,
      loopsByCondStart |-> lm.loopsByCondStart,
      regionsByCondIdx |-> rm,
      ternaries |-> detectTernaryExpressions(ins, g, rm),
      logicals |-> lg,
      usedLabels |-> findUsedLabels(ins, ls, rm, lg),
      catchBlockStarts |-> {r.catchAddrIdx : r \in {t \in try : t.catchAddrIdx # Null}},
      catchBlockEnds |-> {r.catchEndIdx : r \in {t \in try : t.catchEndIdx # Null}},
      skipJumpsAfterTry |->
        {r.tryEndIdx + 1 :
           r \in {t \in try : /\ t.tryEndIdx + 1 < Len(ins)
                              /\ ins[t.tryEndIdx + 2].opName = "JUMP"}}]))))

\* What the methods of one generator read: its fields and the maps.
Context(ins, sw, map, g, m) ==
  [instructions |-> ins, swappedOpcodes |-> sw, opcodeMap |-> map,
   cfg |-> g, maps |-> m]

\* An exception that no handler of the source sees: the main loop never ends.
Hang == "<the main loop does not terminate>"

\* try { ... } catch (e) { emitError(prefix + e.message) } around what gave S.
Caught(S, prefix) ==
  Let(S, LAMBDA R :
    IF Threw(R.gen) /\ R.gen.exc[1] # Hang
    THEN St(R.stack, emitError([R.gen EXCEPT !.exc = << >>], prefix \o R.gen.exc[1]))
    ELSE R)

\* The rest of a statement sequence after an exception is not executed.
AndThen(S, F(_)) == Let(S, LAMBDA R : IF Threw(R.gen) THEN R ELSE F(R))

\* The call result emitted whatever the next instruction is.
EmitCallResultAlways(S, opName, consumed) ==
  IF opName \in getCallOps /\ Len(S.stack) > 0
  THEN St(Rest(S.stack), emitExpression(S.gen, S.stack[Len(S.stack)]))
  ELSE S

\* const r = stack.pop(); if (shouldEmitCallResult(r)) emitExpression(r), when
\* a call has left a result that nothing consumes.
EmitCallResult(S, opName, consumed) ==
  IF opName \in getCallOps /\ Len(S.stack) > 0 /\ ~consumed
  THEN IF shouldEmitCallResult(S.stack[Len(S.stack)])
       THEN St(Rest(S.stack), emitExpression(S.gen, S.stack[Len(S.stack)]))
       ELSE St(Rest(S.stack), S.gen)
  ELSE S

\* consumeOps.has(instructions[b + 1].opName), false past the end.
NextConsumes(ins, b) ==
  b + 1 < Len(ins) /\ ins[b + 2].opName \in getConsumeOps

\* emitRemainingStack(): the literals (numbers, undefined, null, true, false,
\* quoted strings) above the parent's height are dropped, the rest emitted.
RECURSIVE emitRemainingStack(_, _)
emitRemainingStack(S, parentStackLength) ==
  IF Threw(S.gen) \/ Len(S.stack) <= parentStackLength THEN S
  ELSE LET expr == S.stack[Len(S.stack)]
       IN emitRemainingStack(
            St(Rest(S.stack),
               IF expr.kind \in {"num", "lit", "qstr"} THEN S.gen
               ELSE emitExpression(S.gen, expr)),
            parentStackLength)

\* for (j = lo; j <= hi; j++) processInstruction(instructions[j], stack),
\* outside any try; skipJumps leaves out the conditional jumps.
RECURSIVE RunRange(_, _, _, _, _)
RunRange(cx, j, hi, S, skipJumps) ==
  IF j > hi \/ Threw(S.gen) THEN S
  ELSE IF j >= Len(cx.instructions)
  THEN St(S.stack, Throw(S.gen, "Cannot read properties of undefined (reading 'opName')"))
  ELSE RunRange(cx, j + 1, hi,
                IF skipJumps /\ IsCondJump(cx.instructions[j + 1]) THEN S
                ELSE processInstruction(cx.instructions[j + 1], S, cx),
                skipJumps)

\* The body of a while loop: instructions lo..hi on the loop's stack, each in
\* a try, with the result of a call emitted unless the next body instruction
\* consumes it.
RECURSIVE LoopBody(_, _, _, _)
LoopBody(cx, b, hi, S) ==
  IF b > hi \/ Threw(S.gen) THEN S
  ELSE IF b >= Len(cx.instructions)
  THEN St(S.stack, Throw(S.gen, "Cannot read properties of undefined (reading 'opName')"))
  ELSE LoopBody(cx, b + 1, hi,
         AndThen(Caught(processInstruction(cx.instructions[b + 1], S, cx), "Error: "),
           LAMBDA R :
             EmitCallResult(R, cx.instructions[b + 1].opName,
                            NextConsumes(cx.instructions, b) /\ b + 1 <= hi)))

\* for (s = 0; s < loopStack.length; s++) emit the non-trivial entries,
\* bottom first.
RECURSIVE EmitLoopStack(_, _, _)
EmitLoopStack(g, st, s) ==
  IF s > Len(st) \/ Threw(g) THEN g
  ELSE EmitLoopStack(IF isTrivialValue(st[s]) THEN g ELSE emitExpression(g, st[s]),
                     st, s + 1)

\* generate(), lines 904-941 and 950-1012: one while loop; the main stack is
\* left as it was.
WhileLoop(cx, loop, S) ==
  Let(RunRange(cx, loop.condStartIdx, loop.condEndIdx, St(<< >>, S.gen), TRUE),
      LAMBDA cond :
        IF Threw(cond.gen) THEN St(S.stack, cond.gen)
        ELSE
          LET top == PopOr(cond.stack, Bool(TRUE))
              condition == IF loop.pattern = "v2" /\ loop.isTrue
                           THEN Expr(CatAll(<< T("!("), top.text, T(")") >>)) ELSE top
              hi == IF loop.pattern = "v1" THEN loop.condStartIdx - 1
                    ELSE loop.bodyEndIdx
          IN Let(LoopBody(cx, loop.bodyStartIdx, hi,
                          St(S.stack, emitWhileStart(cond.gen, condition))),
                 LAMBDA body :
                   Let(EmitLoopStack(body.gen, body.stack, 1),
                       LAMBDA flushed :
                         St(S.stack, IF Threw(flushed) THEN flushed
                                     ELSE emitWhileEnd(flushed)))))

\* generate(), lines 1015-1034 (and processBlockSequence, 1181-1196): a
\* short-circuit operator.
LogicalExpr(cx, logical, S) ==
  LET left == PopOr(Rest(S.stack), Bool(TRUE))
      base == Rest(Rest(S.stack))
  IN Let(RunRange(cx, logical.rightStartIdx, logical.rightEndIdx,
                  St(base, S.gen), FALSE),
         LAMBDA r :
           IF Threw(r.gen) THEN St(base, r.gen)
           ELSE St(Append(base,
                     Expr(CatAll(<< T("("), left.text,
                                    T(" " \o logical.operator \o " "),
                                    PopOr(r.stack, Undefined).text, T(")") >>))),
                   r.gen))

\* generate(), lines 1036-1055 (and processBlockSequence, 1158-1178): a
\* conditional expression.
TernaryExpr(cx, ternary, S, active) ==
  LET condition == PopOr(S.stack, Bool(TRUE))
      base      == Rest(S.stack)
  IN Let(processBlockSequence(cx, ternary.trueBlocks, St(base, S.gen), TRUE, active),
         LAMBDA t :
           IF Threw(t.gen) THEN St(base, t.gen)
           ELSE Let(processBlockSequence(cx, ternary.falseBlocks, St(base, t.gen),
                                         TRUE, active),
                    LAMBDA f :
                      IF Threw(f.gen) THEN St(base, f.gen)
                      ELSE St(Append(base,
                                Expr(CatAll(<< T("("), condition.text, T(" ? "),
                                               PopOr(t.stack, Undefined).text, T(" : "),
                                               PopOr(f.stack, Undefined).text,
                                               T(")") >>))),
                              f.gen)))

\* One branch of an if statement: the blocks on a clone of the stack, then
\* emitRemainingStack; the parent's stack is left as it was.
Branch(cx, blocks, S, active) ==
  St(S.stack,
     emitRemainingStack(processBlockSequence(cx, blocks, S, FALSE, active),
                        Len(S.stack)).gen)

Indented(S, by) == St(S.stack, [S.gen EXCEPT !.indent = S.gen.indent + by])
Emitted(S, line) == St(S.stack, emit(S.gen, T(line)))

\* generate(), lines 1057-1094 (and processBlockSequence, 1199-1240): an
\* if / else statement.
IfElse(cx, region, S, active) ==
  LET onTrue(R) == IF Len(region.trueBlocks) > 0
                 THEN Branch(cx, region.trueBlocks, R, active) ELSE R
      onFalse(R) == IF Len(region.falseBlocks) > 0
                 THEN AndThen(AndThen(Indented(Emitted(R, "} else {"), 1),
                        LAMBDA Q : Branch(cx, region.falseBlocks, Q, active)),
                        LAMBDA Q : Indented(Q, -1))
                 ELSE R
  IN AndThen(AndThen(AndThen(AndThen(
       St(Rest(S.stack), emitIfStart(S.gen, PopOr(S.stack, Bool(TRUE)))),
       LAMBDA R : onTrue(R)),
       LAMBDA R : Indented(R, -1)),
       LAMBDA R : onFalse(R)),
       LAMBDA R : Emitted(R, "}"))

\* region.mergeBlock ? region.mergeBlock.startIdx : region.endIdx
AfterRegion(cx, region) ==
  IF region.mergeBlock # Null THEN Blk(cx.cfg, region.mergeBlock).startIdx
  ELSE region.endIdx

\* The (index, is the block's last index) pairs the two nested for loops of
\* processBlockSequence() visit.
RECURSIVE BlockPositions(_, _)
BlockPositions(g, blocks) ==
  IF blocks = << >> THEN << >>
  ELSE LET block == Blk(g, Head(blocks))
       IN [k \in 1..(block.endIdx - block.startIdx + 1) |->
             [b |-> block.startIdx + k - 1, last |-> block.startIdx + k - 1 = block.endIdx]]
          \o BlockPositions(g, Tail(blocks))

\* processBlockSequence(), lines 1167-1256: the loop from position k on.
RECURSIVE BlockLoop(_, _, _, _, _, _, _)
BlockLoop(cx, pos, k, skipUntil, S, isTernary, active) ==
  IF k > Len(pos) \/ Threw(S.gen) THEN S
  ELSE
    LET b     == pos[k].b
        instr == cx.instructions[b + 1]
        m     == cx.maps
        plain == AndThen(Caught(processInstruction(instr, S, cx), "Error: "),
                   LAMBDA R : EmitCallResult(R, instr.opName,
                                isTernary \/ NextConsumes(cx.instructions, b)))
    IN IF b < skipUntil THEN BlockLoop(cx, pos, k + 1, skipUntil, S, isTernary, active)
       ELSE IF instr.opName = "JUMP" /\ pos[k].last
       THEN BlockLoop(cx, pos, k + 1, skipUntil, S, isTernary, active)
       ELSE IF b \in DOMAIN m.ternaries
       THEN BlockLoop(cx, pos, k + 1, AfterRegion(cx, m.ternaries[b]),
                      TernaryExpr(cx, m.ternaries[b], S, active), isTernary, active)
       ELSE IF b \in DOMAIN m.logicals
       THEN BlockLoop(cx, pos, k + 1, m.logicals[b].targetIdx,
                      LogicalExpr(cx, m.logicals[b], S), isTernary, active)
       ELSE IF b \in DOMAIN m.regionsByCondIdx
       THEN LET region == m.regionsByCondIdx[b]
            IN IF Len(region.trueBlocks) > 0 \/ Len(region.falseBlocks) > 0
               THEN BlockLoop(cx, pos, k + 1, AfterRegion(cx, region),
                              IfElse(cx, region, S, active), isTernary, active)
               ELSE BlockLoop(cx, pos, k + 1, skipUntil,
                      LET popped == St(Rest(S.stack), S.gen)
                      IN AndThen(Caught(processInstruction(instr, popped, cx), "Error: "),
                           LAMBDA R : EmitCallResult(R, instr.opName,
                                        isTernary \/ NextConsumes(cx.instructions, b))),
                      isTernary, active)
       ELSE BlockLoop(cx, pos, k + 1, skipUntil, plain, isTernary, active)

\* processBlockSequence(): which calls it makes depends on blocks and the maps
\* only, so a call for a block list that is already on the call chain recurses
\* until the engine raises its RangeError.
processBlockSequenceBody(cx, blocks, S, isTernary, active) ==
  IF blocks \in active
  THEN St(S.stack, Throw(S.gen, "Maximum call stack size exceeded"))
  ELSE BlockLoop(cx, BlockPositions(cx.cfg, blocks), 1, -1, S, isTernary,
                 active \cup {blocks})

\* generate(), lines 875-885: the start of a catch block.
CatchStart(S) ==
  LET e == emit([S.gen EXCEPT !.indent = S.gen.indent - 1], T("} catch (err) {"))
  IN IF Threw(e) THEN St(S.stack, e)
     ELSE St(Append(S.stack, Ident("err")), [e EXCEPT !.indent = e.indent + 1])

\* generate(), lines 1096-1117: label, processInstruction in a try, the result
\* of a call.
PlainStep(cx, i, S) ==
  LET instr   == cx.instructions[i + 1]
      labeled == IF instr.addr \in cx.maps.usedLabels
                 THEN St(S.stack, emitLabel(S.gen, generateLabel(instr.addr)))
                 ELSE S
      done    == AndThen(labeled, LAMBDA R :
                   Caught(processInstruction(instr, R, cx),
                          "Error processing " \o instr.opName \o ": "))
  IN AndThen(done, LAMBDA R :
       EmitCallResult(R, instr.opName, NextConsumes(cx.instructions, i)))

Stepped(i, S, kind) == [i |-> i, S |-> S, kind |-> kind]

\* generate(), lines 874-1119: the body of the main loop at index i.
mainLoopBody(cx, i, S0) ==
  LET m == cx.maps
  IN Let(IF i \in m.catchBlockStarts THEN CatchStart(S0) ELSE S0, LAMBDA S :
     IF Threw(S.gen) THEN Stepped(i, S, "catch")
     ELSE IF i \in m.skipJumpsAfterTry THEN Stepped(i + 1, S, "skip")
     ELSE IF i \in m.catchBlockEnds
     THEN Stepped(i + 1, Emitted(Indented(S, -1), "}"), "catchEnd")
     ELSE IF i \in DOMAIN m.loopsByInitJump
     THEN Stepped(m.loopsByInitJump[i].condJumpIdx + 1,
                  WhileLoop(cx, m.loopsByInitJump[i], S), "while")
     ELSE IF i \in DOMAIN m.loopsByCondJump THEN Stepped(i + 1, S, "skip")
     ELSE IF i \in DOMAIN m.loopsByCondStart
     THEN Stepped(m.loopsByCondStart[i].exitIdx,
                  WhileLoop(cx, m.loopsByCondStart[i], S), "while")
     ELSE IF i \in DOMAIN m.logicals
     THEN Stepped(m.logicals[i].targetIdx, LogicalExpr(cx, m.logicals[i], S), "logical")
     ELSE IF i \in DOMAIN m.ternaries
     THEN Stepped(AfterRegion(cx, m.ternaries[i]),
                  TernaryExpr(cx, m.ternaries[i], S, {}), "ternary")
     ELSE IF i \in DOMAIN m.regionsByCondIdx
     THEN LET region == m.regionsByCondIdx[i]
          IN IF Len(region.trueBlocks) > 0 \/ Len(region.falseBlocks) > 0
             THEN Stepped(AfterRegion(cx, region), IfElse(cx, region, S, {}), "if")
             ELSE Stepped(i + 1, PlainStep(cx, i, St(Rest(S.stack), S.gen)), "plain")
     ELSE Stepped(i + 1, PlainStep(cx, i, S), "plain"))

\* generate(), lines 1122-1131: the stack is emitted top first, without what
\* starts with undefined or null, then the pending return.
RECURSIVE FlushStack(_, _)
FlushStack(g, st) ==
  IF st = << >> \/ Threw(g) THEN g
  ELSE FlushStack(IF st[Len(st)].pre \in {"undefined", "null"} THEN g
                  ELSE emitExpression(g, st[Len(st)]),
                  Rest(st))

Flush(S) ==
  LET g == FlushStack(S.gen, S.stack)
  IN IF Threw(g) \/ g.pendingReturn = << >> THEN g ELSE emit(g, g.pendingReturn)

\* The main loop from index i on.  Which index follows an index depends on the
\* maps only, so an index met again is met for ever.
RECURSIVE MainLoop(_, _, _, _)
MainLoop(cx, i, S, visited) ==
  IF Threw(S.gen) \/ i >= Len(cx.instructions) THEN S
  ELSE IF i \in visited THEN St(S.stack, Throw(S.gen, Hang))
  ELSE Let(MainStep(cx, i, S),
           LAMBDA r : MainLoop(cx, r.i, r.S, visited \cup {i}))

\* generate(), lines 835-1135: the analyses, the main loop, the final flush.
generateBody(ins, g0, sw, map) ==
  Let(buildCFGRegions(ins),
      LAMBDA g :
        Let(MainLoop(Context(ins, sw, map, g, GenerateMaps(ins, detectLoops(ins), g)),
                     0, St(<< >>, g0), {}),
            LAMBDA S : IF Threw(S.gen) THEN S.gen ELSE Flush(S)))

Run(task) ==
  CASE task.kind = "generate" ->
         generateBody(task.instructions, task.gen, task.swappedOpcodes, task.opcodeMap)
    [] task.kind = "processInstruction" ->
         processInstructionSwitch(task.instr, task.S, task.cx)
    [] task.kind = "MainStep" ->
         mainLoopBody(task.cx, task.i, task.S)
    [] task.kind = "processBlockSequence" ->
         processBlockSequenceBody(task.cx, task.blocks, task.S, task.isTernary,
                                  task.active)

(***************************************************************************)
(* The disassembler as a state machine: one byte vector, one opcode map,   *)
(* one return opcode; disassemble() runs to its end.                        *)
(***************************************************************************)
NoCfg == [built |-> FALSE]
NoMaps == [ready |-> FALSE]
NoTrace == [visited |-> {}, last |-> "none", at |-> Null, before |-> << >>]

IdleAnalysis == loops = << >> /\ cfg = NoCfg /\ maps = NoMaps
IdleFile ==
  /\ strings = << >> /\ stringsBytes = << >> /\ decodedStrings = << >>
  /\ payload = << >> /\ calls = << >>
IdleGenerator ==
  /\ gi = 0
  /\ stack = << >>
  /\ gen = NewGenerator(0, 0)
  /\ thrown = << >>
  /\ trace = NoTrace

InitDisasm ==
  /\ pc = "detect"
  /\ \/ /\ bytecode \in ByteVectors
        /\ opcodeMap \in OpcodeMaps
        /\ returnOpcode \in ReturnOpcodes
     \/ /\ bytecode \in WidthPayloads
        /\ opcodeMap = WidthMap
        /\ returnOpcode = Null
  /\ pointer = 0
  /\ detectedVersion = ""
  /\ instructions = << >>
  /\ swappedOpcodes = {}
  /\ IdleAnalysis
  /\ IdleGenerator
  /\ IdleFile

\* disassemble(), line 211: version detection and decompression.
DetectVersion ==
  /\ UNCHANGED fileVars
  /\ pc = "detect"
  /\ LET d == detectVersionAndDecompress(bytecode, opcodeMap)
     IN /\ bytecode' = d.bytecode
        /\ pointer' = d.pointer
        /\ detectedVersion' = d.version
  /\ pc' = "decode"
  /\ UNCHANGED <<opcodeMap, returnOpcode, instructions, swappedOpcodes>>
  /\ UNCHANGED anaVars
  /\ UNCHANGED genVars

\* disassemble(), lines 213-457: one iteration of the decoding loop.
DisassembleStep ==
  /\ UNCHANGED fileVars
  /\ pc = "decode"
  /\ pointer < Len(bytecode)
  /\ LET d == DecodeOne(bytecode, pointer, detectedVersion, opcodeMap, returnOpcode)
     IN /\ instructions' = Append(instructions, d.instr)
        /\ pointer' = d.pointer
  /\ UNCHANGED <<pc, bytecode, detectedVersion, opcodeMap, returnOpcode, swappedOpcodes>>
  /\ UNCHANGED anaVars
  /\ UNCHANGED genVars

\* disassemble(), line 459: the loop ends and the instructions are returned.
DisassembleReturn ==
  /\ UNCHANGED fileVars
  /\ pc = "decode"
  /\ pointer >= Len(bytecode)
  /\ pc' = "disassembled"
  /\ UNCHANGED <<bytecode, pointer, detectedVersion, opcodeMap, returnOpcode,
                 instructions, swappedOpcodes>>
  /\ UNCHANGED anaVars
  /\ UNCHANGED genVars

NextDisasm == DetectVersion \/ DisassembleStep \/ DisassembleReturn

SpecDisasm == InitDisasm /\ [][NextDisasm]_vars

(***************************************************************************)
(* The control-flow analysis as a state machine: the generator of one      *)
(* instruction stream runs detectLoops() and then the three steps of        *)
(* buildCFGRegions().                                                       *)
(***************************************************************************)
\* The operations of the enumerated streams: a push, a return, and the three
\* jumps to every instruction index up to MaxStream (an index at or past the
\* end of the stream is an address that no instruction has).
StreamOps ==
  {Op("STACK_PUSH_DWORD", 1, 0), Op("RETURN", 0, 0)}
    \cup {Op(j, t, 0) : j \in {"JUMP", "JUMP_IF_TRUE", "JUMP_IF_FALSE"},
                        t \in 0..MaxStream}

RECURSIVE StreamsOf(_)
StreamsOf(n) ==
  IF n = 0 THEN {<< >>}
  ELSE LET prev == StreamsOf(n - 1)
       IN prev \cup {s \o << o >> : s \in {p \in prev : Len(p) = n - 1}, o \in StreamOps}

\* A generator fresh from its constructor, for the body ops.
Constructed(ops, sw) ==
  /\ bytecode = Encode(ops)
  /\ pointer = Len(bytecode)
  /\ detectedVersion = V1_LEGACY
  /\ opcodeMap = CanonicalMap
  /\ returnOpcode = Null
  /\ instructions = Assemble(ops)
  /\ swappedOpcodes = sw
  /\ pc = "constructed"
  /\ IdleAnalysis
  /\ IdleGenerator
  /\ IdleFile

InitCfg == \E ops \in StreamsOf(MaxStream) : Constructed(ops, {})

\* analyze(): detectLoops().
DetectLoops ==
  /\ UNCHANGED fileVars
  /\ pc = "constructed"
  /\ loops' = detectLoops(instructions)
  /\ pc' = "loops"
  /\ UNCHANGED <<cfg, maps, instructions, swappedOpcodes>>
  /\ UNCHANGED disVars
  /\ UNCHANGED genVars

\* buildCFGRegions(), line 144: cfg.build().
BuildCfg ==
  /\ UNCHANGED fileVars
  /\ pc = "loops"
  /\ cfg' = [built |-> TRUE] @@ build(instructions)
  /\ pc' = "built"
  /\ UNCHANGED <<loops, maps, instructions, swappedOpcodes>>
  /\ UNCHANGED disVars
  /\ UNCHANGED genVars

\* buildCFGRegions(), line 145: cfg.computeDominators().
ComputeDominators ==
  /\ UNCHANGED fileVars
  /\ pc = "built"
  /\ cfg' = cfg @@ computeDominators(cfg)
  /\ pc' = "dominated"
  /\ UNCHANGED <<loops, maps, instructions, swappedOpcodes>>
  /\ UNCHANGED disVars
  /\ UNCHANGED genVars

\* buildCFGRegions(), line 146: cfg.detectStructuredRegions().
DetectStructuredRegions ==
  /\ UNCHANGED fileVars
  /\ pc = "dominated"
  /\ cfg' = cfg @@ [regions |-> detectStructuredRegions(cfg, cfg)]
  /\ pc' = "regions"
  /\ UNCHANGED <<loops, maps, instructions, swappedOpcodes>>
  /\ UNCHANGED disVars
  /\ UNCHANGED genVars

NextCfg == DetectLoops \/ BuildCfg \/ ComputeDominators \/ DetectStructuredRegions

SpecCfg == InitCfg /\ [][NextCfg]_vars

(***************************************************************************)
(* generate() as a state machine: the prelude that builds the maps, one    *)
(* step per iteration of the main loop, the final flush.                    *)
(***************************************************************************)
PushInt(n) == Op("STACK_PUSH_DWORD", n, 0)
LoadVar(scope, dest) == Op("LOAD_VARIABLE", scope, dest)
StoreVar(scope, dest) == Op("STORE_VARIABLE", scope, dest)
Return(hasValue) == Op("RETURN", IF hasValue THEN 1 ELSE 0, 0)

\* push L; push R; the binary opcode; RETURN(true)
BinaryProbe(l, r, opName) == << PushInt(l), PushInt(r), Op(opName, 0, 0), Return(TRUE) >>
OperandPairs == {<< 2, 3 >>, << 10, 3 >>}
BinaryProbes == {BinaryProbe(p[1], p[2], o) : p \in OperandPairs, o \in BinaryOps}

\* if / else with a store in each branch.
IfElseStream ==
  << Op("STACK_PUSH_BOOLEAN", 1, 0), Op("JUMP_IF_FALSE", 5, 0),
     PushInt(1), StoreVar(0, 0), Op("JUMP", 7, 0),
     PushInt(2), StoreVar(0, 0), Return(FALSE) >>

\* The pre-test (v2) loop; exitJump is its conditional jump.
PreTestLoop(exitJump) ==
  << LoadVar(0, 0), PushInt(10), Op("COMPARISON_LESS", 0, 0), Op(exitJump, 10, 0),
     LoadVar(0, 0), PushInt(1), Op("ARITHMETIC_ADD", 0, 0),
     Op("ASSIGN_VARIABLE", 0, 0), Op("STACK_POP", 0, 0), Op("JUMP", 0, 0),
     Return(FALSE) >>

\* The post-test (v1) loop; backJump is its conditional jump.
PostTestLoop(backJump) ==
  << Op("JUMP", 4, 0), LoadVar(0, 0), Op("CALL_FUNCTION", 0, 0), Op("STACK_POP", 0, 0),
     LoadVar(0, 1), Op(backJump, 1, 0), Return(FALSE) >>

\* left; DUPLICATE; the jump; POP; right; RETURN(true)
ShortCircuit(jump) ==
  << LoadVar(0, 0), Op("STACK_PUSH_DUPLICATE", 0, 0), Op(jump, 5, 0),
     Op("STACK_POP", 0, 0), LoadVar(0, 1), Return(TRUE) >>

\* prefix; condition; JUMP_IF_FALSE else; then-branch; JUMP merge; else-branch;
\* merge: RETURN(true)
Conditional(prefix, a, b) ==
  prefix
    \o << Op("STACK_PUSH_BOOLEAN", 1, 0),
          Op("JUMP_IF_FALSE", Len(prefix) + Len(a) + 3, 0) >>
    \o a \o << Op("JUMP", Len(prefix) + Len(a) + 3 + Len(b), 0) >>
    \o b \o << Return(TRUE) >>

Prefixes == {<< >>, << PushInt(7) >>}
Branches ==
  { << PushInt(1) >>,
    << PushInt(2), PushInt(3), Op("ARITHMETIC_ADD", 0, 0) >>,
    << LoadVar(0, 1) >>,
    << PushInt(1), StoreVar(0, 0) >>,
    << Op("DEBUGGER", 0, 0) >>,
    << LoadVar(0, 0), Op("STACK_POP", 0, 0) >>,
    << LoadVar(0, 1), Op("CALL_FUNCTION", 0, 0) >> }
Conditionals == {Conditional(p, a, b) : p \in Prefixes, a \in Branches, b \in Branches}

\* A conditional jump back to the start: the region of the jump holds the
\* block of the jump.
SelfRegion == << Op("STACK_PUSH_BOOLEAN", 1, 0), Op("JUMP_IF_TRUE", 0, 0), Return(FALSE) >>

\* An if / else whose branches meet before the condition; the instruction
\* before the else branch is not a jump, so that no loop is detected.
MergeBefore ==
  << Op("JUMP", 3, 0), PushInt(1), Return(TRUE),
     Op("STACK_PUSH_BOOLEAN", 1, 0), Op("JUMP_IF_FALSE", 7, 0),
     Op("JUMP", 1, 0), PushInt(2),
     PushInt(3), Op("JUMP", 1, 0) >>

\* A call and what follows it: nothing, an instruction that consumes the
\* result, an instruction that does not.
CallHeads ==
  { << LoadVar(0, 0), Op("CALL_FUNCTION", 0, 0) >>,
    << PushInt(4), LoadVar(0, 0), Op("CALL_FUNCTION", 1, 0) >>,
    << LoadVar(0, 0), LoadVar(0, 1), Op("CALL_METHOD", 0, 0) >>,
    << PushInt(4), LoadVar(0, 0), Op("CONSTRUCT", 1, 0) >> }
CallTails ==
  { << >>,
    << StoreVar(0, 2), Return(FALSE) >>,
    << Op("GET_PROPERTY", 0, 0), Return(TRUE) >>,
    << Op("CALL_METHOD", 0, 0) >>,
    << Return(TRUE) >>,
    << Op("STACK_POP", 0, 0), Return(FALSE) >>,
    << PushInt(2), Op("ARITHMETIC_ADD", 0, 0), Return(TRUE) >> }
CallStreams == {h \o t : h \in CallHeads, t \in CallTails}

\* if (c) { return 1; } return 2;
ReturnInBranch ==
  << Op("STACK_PUSH_BOOLEAN", 1, 0), Op("JUMP_IF_FALSE", 4, 0),
     PushInt(1), Return(TRUE), PushInt(2), Return(TRUE) >>

\* if (c) { v = 1; return; } else { v = 2; } return 3;
ReturnInIfElse ==
  << Op("STACK_PUSH_BOOLEAN", 1, 0), Op("JUMP_IF_FALSE", 6, 0),
     PushInt(1), StoreVar(0, 0), Return(FALSE), Op("JUMP", 8, 0),
     PushInt(2), StoreVar(0, 0), PushInt(3), Return(TRUE) >>

Catalogue ==
  BinaryProbes \cup Conditionals \cup CallStreams
    \cup { IfElseStream, SelfRegion, MergeBefore, ReturnInBranch, ReturnInIfElse,
           PreTestLoop("JUMP_IF_FALSE"), PreTestLoop("JUMP_IF_TRUE"),
           PostTestLoop("JUMP_IF_TRUE"), PostTestLoop("JUMP_IF_FALSE"),
           ShortCircuit("JUMP_IF_FALSE"), ShortCircuit("JUMP_IF_TRUE") }

\* The opcode numbers fingerprinting found swapped: none, subtraction only,
\* every binary operator.
SwappedChoices ==
  { {}, {CanonicalCode("ARITHMETIC_SUB")}, {CanonicalCode(o) : o \in BinaryOps} }

\* return function() { return 10 - 3; }; the subtraction is in the nested body.
NestedProbe == << Fn(BinaryProbe(10, 3, "ARITHMETIC_SUB")), Return(TRUE) >>

InitLift ==
  \/ \E ops \in Catalogue, sw \in SwappedChoices : Constructed(ops, sw)
  \/ \E sw \in SwappedChoices : Constructed(NestedProbe, sw)

\* What the methods of the generator read.
Cx == Context(instructions, swappedOpcodes, opcodeMap, cfg, maps)

\* generate(), lines 836-872: loops, regions and the maps of the main loop.
Analyze ==
  /\ UNCHANGED fileVars
  /\ pc = "constructed"
  /\ loops' = detectLoops(instructions)
  /\ cfg' = buildCFGRegions(instructions)
  /\ maps' = GenerateMaps(instructions, loops', cfg')
  /\ pc' = "lifting"
  /\ UNCHANGED <<instructions, swappedOpcodes>>
  /\ UNCHANGED disVars
  /\ UNCHANGED genVars

\* generate(), lines 874-1119: one iteration of the main loop.  An exception
\* that leaves it ends generate().
LiftStep ==
  /\ UNCHANGED fileVars
  /\ pc = "lifting"
  /\ gi < Len(instructions)
  /\ gi \notin trace.visited
  /\ \E r \in {MainStep(Cx, gi, St(stack, gen))} :
        /\ trace' = [visited |-> trace.visited \cup {gi}, last |-> r.kind,
                     at |-> gi, before |-> stack]
        /\ stack' = r.S.stack
        /\ gen' = [r.S.gen EXCEPT !.exc = << >>]
        /\ thrown' = r.S.gen.exc
        /\ gi' = IF Threw(r.S.gen) THEN gi ELSE r.i
        /\ pc' = IF ~Threw(r.S.gen) THEN "lifting"
                 ELSE IF r.S.gen.exc[1] = Hang THEN "diverged" ELSE "threw"
  /\ UNCHANGED <<instructions, swappedOpcodes>>
  /\ UNCHANGED disVars
  /\ UNCHANGED anaVars

\* The main loop is back at an index it has left: it runs for ever.
LiftDiverge ==
  /\ UNCHANGED fileVars
  /\ pc = "lifting"
  /\ gi < Len(instructions)
  /\ gi \in trace.visited
  /\ pc' = "diverged"
  /\ UNCHANGED <<instructions, swappedOpcodes, gi, stack, gen, thrown, trace>>
  /\ UNCHANGED disVars
  /\ UNCHANGED anaVars

\* generate(), lines 1122-1133: the stack and the pending return are emitted.
LiftFinish ==
  /\ UNCHANGED fileVars
  /\ pc = "lifting"
  /\ gi >= Len(instructions)
  /\ \E g \in {Flush(St(stack, gen))} :
        /\ gen' = [g EXCEPT !.exc = << >>]
        /\ thrown' = g.exc
        /\ pc' = IF Threw(g) THEN "threw" ELSE "generated"
  /\ stack' = << >>
  /\ UNCHANGED <<instructions, swappedOpcodes, gi, trace>>
  /\ UNCHANGED disVars
  /\ UNCHANGED anaVars

NextLift == Analyze \/ LiftStep \/ LiftDiverge \/ LiftFinish

SpecLift == InitLift /\ [][NextLift]_vars

(***************************************************************************)
(* Properties.                                                             *)
(***************************************************************************)
\* C5: the instructions disassemble() has decoded carry strictly increasing
\* addr values (hence unique ones), at every point of the decoding loop and in
\* the returned stream, for every byte vector, opcode map and detected version.
C5_AddrStrictlyIncreasing ==
  \A k \in 1..(Len(instructions) - 1) :
    instructions[k].addr < instructions[k + 1].addr

\* A disassembly has returned three instructions or more, of different widths.
C5_Witness ==
  /\ pc = "disassembled"
  /\ Len(instructions) >= 3
  /\ instructions[2].addr - instructions[1].addr
       # instructions[3].addr - instructions[2].addr

\* C6: in a returned disassembly every JUMP, JUMP_IF_TRUE and JUMP_IF_FALSE has
\* as args[0].value the addr of an instruction of the same body, or has its
\* error field set.
C6_JumpTargetsResolveOrError ==
  pc = "disassembled" =>
    \A k \in DOMAIN instructions :
      IsJump(instructions[k]) =>
        \/ instructions[k].args[1].value \in Addresses(instructions)
        \/ instructions[k].error

\* The last instruction of a block, whether the address it jumps to is that
\* of an instruction, and whether an instruction follows the block.
LastOf(b) == instructions[b.endIdx + 1]
TargetResolves(b) == LastOf(b).args[1].value \in Addresses(instructions)
HasFallthrough(b) == b.endIdx + 1 < Len(instructions)

\* C7: after build() every block has 0, 1 or 2 successors; it has 2 exactly
\* when it ends with a conditional jump whose target is the address of an
\* instruction and which is not the last instruction of the stream; a block
\* that ends with RETURN has none; and a block has none exactly when it ends
\* with RETURN, with a JUMP to no instruction's address, or is the last block
\* of the stream and does not end with a jump to an instruction's address.
C7_SuccessorCounts ==
  cfg.built =>
    \A k \in DOMAIN cfg.blocks :
      LET b == cfg.blocks[k]
          n == Len(b.successors)
      IN /\ n \in {0, 1, 2}
         /\ n = 2 <=> (IsCondJump(LastOf(b)) /\ TargetResolves(b) /\ HasFallthrough(b))
         /\ LastOf(b).opName = "RETURN" => n = 0
         /\ n = 0 <=> \/ LastOf(b).opName = "RETURN"
                      \/ LastOf(b).opName = "JUMP" /\ ~TargetResolves(b)
                      \/ /\ ~HasFallthrough(b)
                         /\ IsJump(LastOf(b)) => ~TargetResolves(b)

\* C7 as the specification states it: 2 successors if and only if the block
\* ends with a conditional jump, none if and only if it ends with RETURN.
C7_AsStated ==
  cfg.built =>
    \A k \in DOMAIN cfg.blocks :
      LET b == cfg.blocks[k]
          n == Len(b.successors)
      IN /\ n \in {0, 1, 2}
         /\ n = 2 <=> IsCondJump(LastOf(b))
         /\ n = 0 <=> LastOf(b).opName = "RETURN"

\* A graph with a two-way block, a RETURN block, and a block that ends with a
\* conditional jump and has fewer than two successors.
C7_Witness ==
  /\ cfg.built
  /\ \E k \in DOMAIN cfg.blocks : Len(cfg.blocks[k].successors) = 2
  /\ \E k \in DOMAIN cfg.blocks :
       LastOf(cfg.blocks[k]).opName = "RETURN" /\ HasFallthrough(cfg.blocks[k])
  /\ \E k \in DOMAIN cfg.blocks :
       IsCondJump(LastOf(cfg.blocks[k])) /\ Len(cfg.blocks[k].successors) < 2

\* C8: after computeDominators() the entry block is dominated by itself only,
\* every block dominates itself, and the dominators of a block other than the
\* entry are the block and what dominates each of its predecessors (every
\* block, when it has no predecessor).
C8_DominatorEquations ==
  (cfg.built /\ "dominators" \in DOMAIN cfg /\ cfg.blocks # << >>) =>
    /\ cfg.dominators[cfg.entryBlock] = {cfg.entryBlock}
    /\ \A k \in DOMAIN cfg.blocks : cfg.blocks[k].id \in cfg.dominators[cfg.blocks[k].id]
    /\ \A k \in DOMAIN cfg.blocks :
         LET n == cfg.blocks[k]
         IN n.id # cfg.entryBlock =>
              cfg.dominators[n.id] =
                {n.id} \cup {d \in BlockIds(cfg) :
                               \A p \in Range(n.predecessors) : d \in cfg.dominators[p]}

\* A block where two edges meet and whose dominators are neither itself alone
\* nor every block.
C8_Witness ==
  /\ cfg.built
  /\ "dominators" \in DOMAIN cfg
  /\ \E k \in DOMAIN cfg.blocks :
       LET n == cfg.blocks[k]
       IN /\ n.id # cfg.entryBlock
          /\ Cardinality(Range(n.predecessors)) = 2
          /\ cfg.dominators[n.id] # {n.id}
          /\ cfg.dominators[n.id] # BlockIds(cfg)

\* The jump that closes a loop: the conditional jump of a v1 loop, the
\* unconditional back-jump of a v2 loop.
BackJumpOf(loop) ==
  instructions[(IF loop.pattern = "v1" THEN loop.condJumpIdx ELSE loop.backJumpIdx) + 1]

\* C9: the back-jump of every loop detectLoops() returns targets an address
\* at or before the address of the instruction at condStartIdx.
C9_BackJumpNotPastCondition ==
  \A k \in DOMAIN loops :
    BackJumpOf(loops[k]).args[1].value <= instructions[loops[k].condStartIdx + 1].addr

\* A v1 loop whose conditional jump goes back to before the condition.
C9_Witness ==
  \E k \in DOMAIN loops :
    /\ loops[k].pattern = "v1"
    /\ BackJumpOf(loops[k]).args[1].value < instructions[loops[k].condStartIdx + 1].addr

(***************************************************************************)
(* Properties of generate(), checked under SpecLift.                       *)
(***************************************************************************)
\* The stream is push L; push R; a binary opcode; RETURN(true).
IsBinaryProbe ==
  /\ Len(instructions) = 4
  /\ instructions[1].opName = "STACK_PUSH_DWORD"
  /\ instructions[2].opName = "STACK_PUSH_DWORD"
  /\ instructions[3].opName \in BinaryOps
  /\ instructions[4].opName = "RETURN"

ProbeL == ToString(instructions[1].args[1].value)
ProbeR == ToString(instructions[2].args[1].value)
ProbeOp ==
  IF instructions[3].opName = "BINARY_IN" THEN "in"
  ELSE IF instructions[3].opName = "BINARY_INSTANCEOF" THEN "instanceof"
  ELSE BinaryOperator(instructions[3].opName)
ProbeSwapped == instructions[3].opcode \in swappedOpcodes

\* The binary opcode of the probe has just been lifted.
ProbeLifted == IsBinaryProbe /\ pc = "lifting" /\ trace.at = 2

\* C1 (as the code has it): for every binary opcode, lifting push L, push R
\* and the opcode leaves the one entry (R OP L) on the symbolic stack when the
\* raw opcode is not in SwappedOpcodes and (L OP R) when it is; the stream
\* 2, 3, ADD, RETURN(true) lifts to "return (3 + 2);" and 10, 3, SUB,
\* RETURN(true) with SUB swapped lifts to "return (10 - 3);".
C1_BinaryOperandOrder ==
  /\ ProbeLifted =>
       /\ Len(stack) = 1
       /\ stack[1].text =
            << IF ProbeSwapped
               THEN "(" \o ProbeL \o " " \o ProbeOp \o " " \o ProbeR \o ")"
               ELSE "(" \o ProbeR \o " " \o ProbeOp \o " " \o ProbeL \o ")" >>
  /\ (pc = "generated" /\ instructions = Assemble(BinaryProbe(2, 3, "ARITHMETIC_ADD"))
        /\ ~ProbeSwapped)
       => gen.output = << "return (3 + 2);" >>
  /\ (pc = "generated" /\ instructions = Assemble(BinaryProbe(10, 3, "ARITHMETIC_SUB"))
        /\ ProbeSwapped)
       => gen.output = << "return (10 - 3);" >>

\* C1 as the specification states it: (L OP R) when the opcode is not swapped,
\* (R OP L) when it is.
C1_AsStated ==
  ProbeLifted =>
    /\ Len(stack) = 1
    /\ stack[1].text =
         << IF ProbeSwapped
            THEN "(" \o ProbeR \o " " \o ProbeOp \o " " \o ProbeL \o ")"
            ELSE "(" \o ProbeL \o " " \o ProbeOp \o " " \o ProbeR \o ")" >>

\* The swapped subtraction of 10 and 3 has been lifted to (10 - 3).
C1_Witness ==
  /\ ProbeLifted
  /\ ProbeSwapped
  /\ instructions[3].opName = "ARITHMETIC_SUB"
  /\ ProbeL = "10" /\ ProbeR = "3"
  /\ stack[1].text = << "(10 - 3)" >>

\* C2: lifting the if / else stream emits exactly the six lines of the
\* if / else and the return, and no label line.
C2_IfElseExactLines ==
  (pc = "generated" /\ instructions = Assemble(IfElseStream)) =>
    gen.output = << "if (true) {", "  var var_0 = 1;", "} else {",
                    "  var var_0 = 2;", "}", "return;" >>

\* The texts of the loop condition and of the assigned sum in the pre-test
\* loop stream, by what SwappedOpcodes holds.
LoopConditionText ==
  IF CanonicalCode("COMPARISON_LESS") \in swappedOpcodes
  THEN "(var_0 < 10)" ELSE "(10 < var_0)"
LoopSumText ==
  IF CanonicalCode("ARITHMETIC_ADD") \in swappedOpcodes
  THEN "(var_0 + 1)" ELSE "(1 + var_0)"

\* C3 (as the code has it): the pre-test loop stream is detected as one v2
\* loop and lifts to a while block on the condition (10 < var_0), the operands
\* in the order the lifter gives an unswapped opcode, whose body is the single
\* statement (var_0 = (1 + var_0)); in parentheses, followed by return;.
C3_PreTestLoopLines ==
  (pc = "generated" /\ instructions = Assemble(PreTestLoop("JUMP_IF_FALSE"))) =>
    /\ Len(loops) = 1
    /\ loops[1].pattern = "v2"
    /\ gen.output = << "while (" \o LoopConditionText \o ") {",
                       "  (var_0 = " \o LoopSumText \o ");",
                       "}",
                       "return;" >>

\* C3 as the specification states it.
C3_AsStated ==
  (pc = "generated" /\ instructions = Assemble(PreTestLoop("JUMP_IF_FALSE"))
     /\ swappedOpcodes = {}) =>
    gen.output = << "while ((var_0 < 10)) {", "  var_0 = (var_0 + 1);", "}", "return;" >>

\* The pre-test loop has been lifted with no opcode swapped.
C3_Witness ==
  /\ pc = "generated"
  /\ instructions = Assemble(PreTestLoop("JUMP_IF_FALSE"))
  /\ swappedOpcodes = {}
  /\ Len(loops) = 1
  /\ gen.output[1] = "while ((10 < var_0)) {"


\* The operator the short-circuit stream of the state's conditional jump
\* stands for.
ShortCircuitJumps == {"JUMP_IF_FALSE", "JUMP_IF_TRUE"}
StatedOperator(jump) == IF jump = "JUMP_IF_FALSE" THEN "&&" ELSE "||"

\* C4: the short-circuit stream lifts to exactly return (var_0 && var_1); (with
\* JUMP_IF_TRUE: ||); its DUPLICATE / jump / POP triple is recognised as a
\* logical region with that operator; an index that has a logical region is
\* never lifted as a ternary, an if / else or a plain instruction; and the
\* region reduces to the one stack entry (left OP right).
C4_ShortCircuit ==
  /\ (pc = "lifting" /\ trace.at \in DOMAIN maps.logicals) => trace.last = "logical"
  /\ \A jump \in ShortCircuitJumps :
       instructions = Assemble(ShortCircuit(jump)) =>
         /\ maps.ready =>
              /\ DOMAIN maps.logicals = {2}
              /\ maps.logicals[2].operator = StatedOperator(jump)
         /\ (pc = "lifting" /\ trace.last = "logical") =>
              /\ Len(stack) = 1
              /\ stack[1].text = << "(var_0 " \o StatedOperator(jump) \o " var_1)" >>
         /\ pc = "generated" =>
              gen.output = << "return (var_0 " \o StatedOperator(jump) \o " var_1);" >>

\* The && stream has been reduced at an index that also has an if / else
\* region.
C4_Witness ==
  /\ instructions = Assemble(ShortCircuit("JUMP_IF_FALSE"))
  /\ pc = "lifting"
  /\ trace.last = "logical"
  /\ trace.at \in DOMAIN maps.regionsByCondIdx
  /\ stack[1].text = << "(var_0 && var_1)" >>

\* What a branch of the conditional streams can leave as a ternary operand.
TernaryOperandTexts ==
  {"1", "7", "(3 + 2)", "(2 + 3)", "var_0", "var_1", "undefined",
   "var_0()", "var_1()"}

\* C10: every region detectTernaryExpressions() returns has a true branch and
\* a false branch of exactly one block each, neither holding STORE_VARIABLE,
\* SET_PROPERTY, UNARY_THROW, RETURN or DEBUGGER; and lifting a ternary in
\* generate() leaves the stack as it was after the condition was popped plus
\* the one entry (cond ? left : right).
C10_TernaryShape ==
  /\ maps.ready =>
       \A i \in DOMAIN maps.ternaries :
         LET region == maps.ternaries[i]
         IN /\ Len(region.trueBlocks) = 1
            /\ Len(region.falseBlocks) = 1
            /\ \A id \in {region.trueBlocks[1], region.falseBlocks[1]} :
                 \A j \in Blk(cfg, id).startIdx..Blk(cfg, id).endIdx :
                   instructions[j + 1].opName \notin
                     {"STORE_VARIABLE", "SET_PROPERTY", "UNARY_THROW", "RETURN",
                      "DEBUGGER"}
  /\ (pc = "lifting" /\ trace.last = "ternary") =>
       /\ trace.before # << >>
       /\ Len(stack) = Len(trace.before)
       /\ SubSeq(stack, 1, Len(stack) - 1) = SubSeq(trace.before, 1, Len(trace.before) - 1)
       /\ \E l \in TernaryOperandTexts, r \in TernaryOperandTexts :
            stack[Len(stack)].text =
              << "(" \o trace.before[Len(trace.before)].text[1] \o " ? "
                     \o l \o " : " \o r \o ")" >>

\* A ternary has been lifted above an entry that was on the stack before the
\* condition.
C10_Witness ==
  /\ pc = "lifting"
  /\ trace.last = "ternary"
  /\ Len(stack) = 2
  /\ stack[1].text = << "7" >>
  /\ stack[2].text = << "(true ? (3 + 2) : var_0)" >>

(***************************************************************************)
(* runtime/bytecodeReader.js: the string table.                            *)
(*                                                                         *)
(* A string is written as its runs of equal code units, << [unit, count],  *)
(* ... >> with adjacent runs of different units, and a byte buffer as runs *)
(* of a repeated chunk of bytes, so that a string of a hundred thousand    *)
(* code units is a value of a few numbers.  StringsByteAt and ByteLength are      *)
(* stringsBytes[i] and stringsBytes.length on that form.                   *)
(***************************************************************************)
LengthLimit == 100000   \* decodeStringsBytes: the longest string it accepts

Repeat(unit, count) == << [unit |-> unit, count |-> count] >>

RECURSIVE StringLength(_)
StringLength(str) ==
  IF str = << >> THEN 0 ELSE str[1].count + StringLength(Tail(str))

RECURSIVE ByteLength(_)
ByteLength(buf) ==
  IF buf = << >> THEN 0
  ELSE Len(buf[1].chunk) * buf[1].count + ByteLength(Tail(buf))

\* stringsBytes[i] & 0xFF, i counted from 0; undefined & 0xFF is 0.
RECURSIVE StringsByteAt(_, _)
StringsByteAt(buf, i) ==
  IF buf = << >> THEN 0
  ELSE IF i < Len(buf[1].chunk) * buf[1].count
       THEN buf[1].chunk[(i % Len(buf[1].chunk)) + 1]
       ELSE StringsByteAt(Tail(buf), i - Len(buf[1].chunk) * buf[1].count)

\* code ^ 0x80 on a 16-bit code unit.
Xor80(code) == IF (code \div 128) % 2 = 1 THEN code - 128 ELSE code + 128

U16LE(n) == << n % 256, (n \div 256) % 256 >>
U32LE(n) == << n % 256, (n \div 256) % 256, (n \div 65536) % 256,
               (n \div 16777216) % 256 >>

\* The trivial encoder of one string: its length as a little-endian u32,
\* then each code unit XORed with 0x80 as a little-endian u16.
encodeString(str) ==
  << [chunk |-> U32LE(StringLength(str)), count |-> 1] >>
  \o [k \in DOMAIN str |-> [chunk |-> U16LE(Xor80(str[k].unit)),
                            count |-> str[k].count]]

RECURSIVE encodeStrings(_)
encodeStrings(list) ==
  IF list = << >> THEN << >>
  ELSE encodeString(list[1]) \o encodeStrings(Tail(list))

\* The runs of a string given unit by unit (a function on 1..n).
RunsOf(units) ==
  LET n == Len(units)
      starts == SortedSeq({j \in 1..n : j = 1 \/ units[j] # units[j - 1]})
  IN [k \in DOMAIN starts |->
        [unit |-> units[starts[k]],
         count |-> (IF k < Len(starts) THEN starts[k + 1] ELSE n + 1) - starts[k]]]

\* Lines 115-116: the little-endian length of a record, a 32-bit signed
\* integer after the shifts and ors.
ReadLength(buf, i) ==
  StringsByteAt(buf, i) + 256 * StringsByteAt(buf, i + 1) + 65536 * StringsByteAt(buf, i + 2)
  + 16777216 * (IF StringsByteAt(buf, i + 3) >= 128 THEN StringsByteAt(buf, i + 3) - 256
                ELSE StringsByteAt(buf, i + 3))

\* The code units read from their low bytes only.
ReadStringLowBytes(buf, i, length) ==
  Let([j \in 1..length |-> Xor80(StringsByteAt(buf, i + 2 * (j - 1)))] \o << >>,
      LAMBDA units : RunsOf(units))

\* Lines 124-128: the code units of one record, each XORed with 0x80.
ReadString(buf, i, length) ==
  Let([j \in 1..length |->
         Xor80(StringsByteAt(buf, i + 2 * (j - 1))
               + 256 * StringsByteAt(buf, i + 2 * (j - 1) + 1))] \o << >>,
      LAMBDA units : RunsOf(units))

\* decodeStringsBytes(), lines 107-132: the while loop from offset i with
\* the strings pushed so far.
RECURSIVE DecodeRecords(_, _, _)
DecodeRecords(buf, i, out) ==
  IF i >= ByteLength(buf) \/ i + 4 > ByteLength(buf) THEN out
  ELSE Let(ReadLength(buf, i), LAMBDA length :
         IF \/ length < 0
            \/ length > LengthLimit
            \/ i + 4 + length * 2 > ByteLength(buf)
         THEN out
         ELSE DecodeRecords(buf, i + 4 + 2 * length,
                            Append(out, ReadString(buf, i + 4, length))))

decodeStringsBytes(buf) == DecodeRecords(buf, 0, << >>)

(***************************************************************************)
(* The string table as a state machine: a list of strings is encoded by    *)
(* the trivial encoder and the bytes are given to decodeStringsBytes.      *)
(***************************************************************************)
Units == {65, 128, 20013}

RECURSIVE UnitSeqs(_)
UnitSeqs(n) ==
  IF n = 0 THEN {<< >>}
  ELSE UnitSeqs(n - 1)
       \cup {Append(s, u) : s \in {t \in UnitSeqs(n - 1) : Len(t) = n - 1},
                            u \in Units}

ShortStrings == {RunsOf(s) : s \in UnitSeqs(MaxUnits)}
LongStrings == {Repeat(65, LengthLimit), Repeat(65, LengthLimit + 1)}
InputStrings == ShortStrings \cup LongStrings

RECURSIVE StringLists(_)
StringLists(n) ==
  IF n = 0 THEN {<< >>}
  ELSE StringLists(n - 1)
       \cup {Append(l, s) : l \in {t \in StringLists(n - 1) : Len(t) = n - 1},
                            s \in InputStrings}

InitStrings ==
  /\ pc = "strings"
  /\ strings \in StringLists(MaxStrings)
  /\ stringsBytes = << >>
  /\ decodedStrings = << >>
  /\ payload = << >>
  /\ calls = << >>
  /\ bytecode = << >>
  /\ pointer = 0
  /\ detectedVersion = ""
  /\ opcodeMap = CanonicalMap
  /\ returnOpcode = Null
  /\ instructions = << >>
  /\ swappedOpcodes = {}
  /\ IdleAnalysis
  /\ IdleGenerator

\* The encoder writes the table.
EncodeStrings ==
  /\ pc = "strings"
  /\ stringsBytes' = encodeStrings(strings)
  /\ pc' = "encoded"
  /\ UNCHANGED <<strings, decodedStrings, payload, calls>>
  /\ UNCHANGED <<disVars, instructions, swappedOpcodes, anaVars, genVars>>

\* decodeStringsBytes(stringsBytes).
DecodeStringsBytes ==
  /\ pc = "encoded"
  /\ decodedStrings' = decodeStringsBytes(stringsBytes)
  /\ pc' = "decoded"
  /\ UNCHANGED <<strings, stringsBytes, payload, calls>>
  /\ UNCHANGED <<disVars, instructions, swappedOpcodes, anaVars, genVars>>

NextStrings == EncodeStrings \/ DecodeStringsBytes

SpecStrings == InitStrings /\ [][NextStrings]_vars

(***************************************************************************)
(* Properties of decodeStringsBytes, checked under SpecStrings.            *)
(***************************************************************************)
\* The strings of a list before its first string longer than the limit.
RECURSIVE AcceptedPrefix(_)
AcceptedPrefix(list) ==
  IF list = << >> \/ StringLength(list[1]) > LengthLimit THEN << >>
  ELSE << list[1] >> \o AcceptedPrefix(Tail(list))

\* C11 as stated: for every finite list of strings, decoding the bytes of
\* the trivial encoder returns exactly the original list, in order.
C11_AsStated == pc = "decoded" => decodedStrings = strings

\* C11: decoding the bytes of the trivial encoder returns, in order, the
\* strings of the list up to its first string of more than 100000 code
\* units: the whole list when no string is longer than that, and a string
\* past the limit ends the decoding, itself and every later string dropped.
C11_InverseUpToLengthLimit ==
  pc = "decoded" =>
    /\ decodedStrings = AcceptedPrefix(strings)
    /\ (\A k \in DOMAIN strings : StringLength(strings[k]) <= LengthLimit)
         => decodedStrings = strings

\* A list of a string of exactly 100000 code units and a string of two
\* different code units has been encoded and decoded back.
C11_Witness ==
  /\ pc = "decoded"
  /\ strings = << Repeat(65, LengthLimit),
                  << [unit |-> 20013, count |-> 1], [unit |-> 128, count |-> 1] >> >>
  /\ decodedStrings = strings

(***************************************************************************)
(* Properties of the call results, checked under SpecLift.                 *)
(***************************************************************************)
\* A step of the main loop lifts the plain instruction at gi, a call, and
\* raises nothing.
PlainCallStep ==
  /\ pc = "lifting" /\ pc' = "lifting"
  /\ trace'.last = "plain" /\ trace'.at = gi
  /\ instructions[gi + 1].opName \in getCallOps

\* The stack after processInstruction has lifted the call at gi.
CallLifted == processInstruction(instructions[gi + 1], St(stack, gen), Cx).stack

\* The lines the step has added to the output, the label of the instruction
\* aside.
LinesOfStep ==
  SubSeq(gen'.output,
         Len(gen.output)
           + (IF instructions[gi + 1].addr \in maps.usedLabels THEN 2 ELSE 1),
         Len(gen'.output))

\* The instructions from..to (0-based) hold a call that is followed by no
\* instruction or by one that is no consume op.
UnconsumedCallIn(from, to) ==
  \E k \in from..to :
    /\ instructions[k + 1].opName \in getCallOps
    /\ ~NextConsumes(instructions, k)

ExtractedMap == [n \in 0..(Len(OperationCode) - 1) |-> OpcodeNames(n)]

\* The V1 wire layout: the compression flag, then the body.
V1Layout(ops) == Encode(ops)
\* The V2 wire layout: the body, then the compression flag.  The body is laid
\* out from address 1, so only bodies without jumps are given in this layout.
V2Layout(ops) == EncodeFrom(ops, 1) \o << 0 >>

ReturnOnly == << Return(FALSE) >>

StraightStreams ==
  { ReturnOnly,
    << PushInt(1), Return(TRUE), Op("DEBUGGER", 0, 0) >>,
    << Op("DEBUGGER", 0, 0), Return(FALSE) >>,
    << LoadVar(0, 0), Op("CALL_FUNCTION", 0, 0) >>,
    << PushInt(2), StoreVar(0, 0), Return(FALSE), Op("STACK_POP", 0, 0) >> }

\* V1 payloads that hold the byte 90, which is no opcode of OperationCode:
\* alone before a RETURN, and between a push and a RETURN with a value.
UnknownPayloads ==
  { << 0, 90, 72, 0 >>,
    << 0, 1, 7, 0, 0, 0, 90, 72, 1, 73 >> }

Payloads ==
  {V1Layout(ops) : ops \in StraightStreams
                     \cup {IfElseStream, MergeBefore \o << Op("DEBUGGER", 0, 0) >>}}
    \cup {V2Layout(ops) : ops \in StraightStreams}
    \cup UnknownPayloads

\* An extracted map that names one byte TRY_FINALLY, an opcode whose lifting
\* raises a TypeError (the emitter has no emitFinallyStart).
RaisingMap == (CanonicalCode("DEBUGGER") :> "TRY_FINALLY")
Raising == Op("DEBUGGER", 0, 0)
RaisedMessage == "this.emitter.emitFinallyStart is not a function"

\* The raising instruction at top level, in the condition and in the body of a
\* pre-test loop, in the condition and in the body of a post-test loop, in a
\* branch of an if / else, in a branch of a conditional expression and in the
\* right operand of a short-circuit operator.
RaisingStreams ==
  { << PushInt(1), Raising, Return(FALSE) >>,
    << LoadVar(0, 0), Raising, Op("JUMP_IF_FALSE", 6, 0),
       LoadVar(0, 1), Op("STACK_POP", 0, 0), Op("JUMP", 0, 0), Return(FALSE) >>,
    << LoadVar(0, 0), Op("JUMP_IF_FALSE", 5, 0),
       Raising, LoadVar(0, 1), Op("JUMP", 0, 0), Return(FALSE) >>,
    << Op("JUMP", 3, 0), LoadVar(0, 0), Op("STACK_POP", 0, 0),
       LoadVar(0, 1), Raising, Op("JUMP_IF_TRUE", 1, 0), Return(FALSE) >>,
    << Op("JUMP", 3, 0), Raising, LoadVar(0, 0),
       LoadVar(0, 1), Op("JUMP_IF_TRUE", 1, 0), Return(FALSE) >>,
    << Op("STACK_PUSH_BOOLEAN", 1, 0), Op("JUMP_IF_FALSE", 6, 0),
       Raising, PushInt(1), StoreVar(0, 0), Op("JUMP", 8, 0),
       PushInt(2), StoreVar(0, 0), Return(FALSE) >>,
    << Op("STACK_PUSH_BOOLEAN", 1, 0), Op("JUMP_IF_FALSE", 5, 0),
       Raising, PushInt(1), Op("JUMP", 6, 0),
       PushInt(2), StoreVar(0, 0), Return(FALSE) >>,
    << LoadVar(0, 0), Op("STACK_PUSH_DUPLICATE", 0, 0), Op("JUMP_IF_FALSE", 6, 0),
       Op("STACK_POP", 0, 0), Raising, LoadVar(0, 1), StoreVar(0, 0),
       Return(FALSE) >> }

RaisingPayloads == {V1Layout(ops) : ops \in RaisingStreams}

\* Bodies of nested functions: two stores; a store, a function of one store
\* and a store; a store and a pre-test loop whose condition raises, which
\* ends the nested generate() by an exception.
TwoStores ==
  << PushInt(2), StoreVar(0, 0), PushInt(3), StoreVar(0, 1), Return(FALSE) >>
StoreAndFunction ==
  << PushInt(2), StoreVar(0, 0),
     Fn(<< PushInt(3), StoreVar(0, 0), Return(FALSE) >>), StoreVar(0, 1),
     Return(FALSE) >>
StoreAndRaise ==
  << PushInt(2), StoreVar(0, 5), LoadVar(0, 0), Raising,
     Op("JUMP_IF_FALSE", 6, 0), Op("JUMP", 2, 0), Return(FALSE) >>

\* A store, a function that is stored, and a store after it.
FunctionStream(body) ==
  << PushInt(1), StoreVar(0, 0), Fn(body), StoreVar(0, 1),
     PushInt(4), StoreVar(0, 2), Return(FALSE) >>

FunctionPayloads ==
  { V1Layout(FunctionStream(TwoStores)),
    V1Layout(FunctionStream(StoreAndFunction)),
    V1Layout(FunctionStream(StoreAndRaise)) }

InitDecompile ==
  /\ pc = "detect"
  /\ \/ /\ payload \in Payloads
        /\ opcodeMap \in {CanonicalMap, ExtractedMap}
        /\ returnOpcode \in {Null, CanonicalCode("RETURN")}
     \/ /\ payload \in RaisingPayloads \cup FunctionPayloads
        /\ opcodeMap = RaisingMap
        /\ returnOpcode = Null
  /\ bytecode = payload
  /\ pointer = 0
  /\ detectedVersion = ""
  /\ instructions = << >>
  /\ swappedOpcodes = {}
  /\ IdleAnalysis
  /\ IdleGenerator
  /\ strings = << >> /\ stringsBytes = << >> /\ decodedStrings = << >>
  /\ calls = << >>

\* index.js, line 192: new CodeGenerator(instructions, strings, opcodeMap,
\* returnOpcode), without swapped opcodes.
NewCodeGenerator ==
  /\ pc = "disassembled"
  /\ pc' = "constructed"
  /\ UNCHANGED <<instructions, swappedOpcodes>>
  /\ UNCHANGED <<disVars, anaVars, genVars, fileVars>>

NextDecompile ==
  \/ DetectVersion \/ DisassembleStep \/ DisassembleReturn
  \/ NewCodeGenerator
  \/ Analyze \/ LiftStep \/ LiftDiverge \/ LiftFinish

SpecDecompile == InitDecompile /\ [][NextDecompile]_vars

(***************************************************************************)
(* Properties of the pipeline, checked under SpecDecompile.                *)
(***************************************************************************)
\* C13: a payload whose only instruction is RETURN with has_value = 0, in
\* the V1 layout (flag byte first) or in the V2 layout (flag byte last), is
\* disassembled and lifted to exactly the one line `return;`.
C13_ReturnOnly ==
  (pc = "generated" /\ payload \in {V1Layout(ReturnOnly), V2Layout(ReturnOnly)})
    => gen.output = << "return;" >>

(***************************************************************************)
(* Properties of detectVersionAndDecompress, checked under SpecDisasm.     *)
(***************************************************************************)
\* The V2 test of a payload: its last byte is 0 or 1 and the data without
\* it (decompressed when the byte is 1) looks like bytecode.
V2TestHolds(bc, map) ==
  /\ Len(bc) > 0
  /\ bc[Len(bc)] \in {0, 1}
  /\ IF bc[Len(bc)] = 1
     THEN /\ Len(decompressLZ77(Slice(bc, 0, Len(bc) - 1))) > 0
          /\ looksLikeBytecode(decompressLZ77(Slice(bc, 0, Len(bc) - 1)), map)
     ELSE looksLikeBytecode(Slice(bc, 0, Len(bc) - 1), map)

\* The V1 test of a payload: its first byte is 0 or 1.
V1TestHolds(bc) == Len(bc) > 0 /\ bc[1] \in {0, 1}

\* C14: when a payload satisfies both the V2 test and the V1 test,
\* detectVersionAndDecompress detects V1_LEGACY.
C14_AmbiguousIsV1 ==
  [][(pc = "detect" /\ V2TestHolds(bytecode, opcodeMap) /\ V1TestHolds(bytecode))
       => detectedVersion' = V1_LEGACY]_vars

\* C15: when the operands of an instruction extend past the end of the byte
\* stream (the pointer after it is past the end), the disassembler sets the
\* error field of that instruction, which is the last one it decodes.
C15_OverrunSetsError ==
  (pc \in {"decode", "disassembled"} /\ instructions # << >>
     /\ pointer > Len(bytecode))
    => instructions[Len(instructions)].error

(***************************************************************************)
(* Properties of the nested bodies, checked under SpecDisasm.              *)
(***************************************************************************)
\* The bytes new Uint8Array([0, ...instr.fnBody]) holds.
NestedBytes(instr) == << 0 >> \o [k \in DOMAIN instr.fnBody |-> Or0(instr.fnBody[k])]

\* What an instruction list says, the addresses aside.
Decoded(ins) ==
  [k \in DOMAIN ins |-> [opName |-> ins[k].opName, args |-> ins[k].args]]

\* C16: the body of a BUILD_FUNCTION is disassembled for lifting as the
\* decoding loop reads it under the version the outer disassembler detected,
\* from the first body byte to the last one, without version detection
\* (bodies of up to MaxBody bytes).
C16_NestedBodyInheritsVersion ==
  pc = "disassembled" =>
    \A k \in DOMAIN instructions :
      (/\ instructions[k].opName = "BUILD_FUNCTION"
       /\ instructions[k].args[1].value <= MaxBody) =>
        Decoded(disassemble(NestedBytes(instructions[k]), opcodeMap, Null))
          = Decoded(DecodeFrom(NestedBytes(instructions[k]), 1, detectedVersion,
                               opcodeMap, Null, << >>))

\* The opcode has no entry in the opcode map and is not the RETURN opcode.
Unmapped(instr) ==
  /\ instr.opcode \notin DOMAIN opcodeMap
  /\ returnOpcode = Null \/ instr.opcode # returnOpcode

\* The opcode has no entry in the opcode map, is not the RETURN opcode and
\* is no opcode number of the canonical table either.
Unnamed(instr) == Unmapped(instr) /\ ~InOpcodeNames(instr.opcode)

\* The line the lifter writes for an instruction it has no case for.
Placeholder(instr) ==
  IndentStr(gen.indent) \o "/* Unknown opcode: UNKNOWN_"
    \o ToString(instr.opcode) \o " */"

\* C17 as stated: every disassembled instruction whose raw opcode byte n has
\* no entry in the opcode map and is not the RETURN opcode is named
\* UNKNOWN_<n>.
C17_AsStated ==
  \A k \in DOMAIN instructions :
    Unmapped(instructions[k])
      => instructions[k].opName = "UNKNOWN_" \o ToString(instructions[k].opcode)

\* C17: a raw opcode byte n that has no entry in the opcode map, is not the
\* RETURN opcode and is no opcode number of the canonical table disassembles
\* to an instruction named UNKNOWN_<n>, while one that is a canonical opcode
\* number takes its canonical name; the step that lifts an UNKNOWN_<n>
\* instruction adds one placeholder comment to the output, leaves the stack
\* alone and goes on to the next instruction.
C17_UnknownOpcode ==
  [][/\ \A k \in DOMAIN instructions' :
          /\ Unnamed(instructions'[k])
               => instructions'[k].opName
                    = "UNKNOWN_" \o ToString(instructions'[k].opcode)
          /\ (Unmapped(instructions'[k]) /\ InOpcodeNames(instructions'[k].opcode))
               => instructions'[k].opName = OpcodeNames(instructions'[k].opcode)
     /\ (/\ pc = "lifting" /\ gi < Len(instructions)
         /\ Unnamed(instructions[gi + 1])
         /\ gi' # gi)
          => /\ pc' = "lifting"
             /\ gi' = gi + 1
             /\ stack' = stack
             /\ gen'.output = Append(gen.output, Placeholder(instructions[gi + 1]))]_vars

\* The unknown byte 90 has been lifted to its placeholder and the RETURN
\* after it has been lifted too.
C17_Witness ==
  /\ pc = "generated"
  /\ \E k \in DOMAIN instructions : Unnamed(instructions[k])
  /\ gen.output = << "/* Unknown opcode: UNKNOWN_90 */", "return;" >>

\* C18: an exception raised by the lifting of a single instruction never
\* leaves generate(): wherever the raising instruction sits, generate() does
\* not end by throwing that instruction's exception.
C18_GenerateReturns == ~(pc = "threw" /\ thrown = << RaisedMessage >>)

\* The payload is read as V1, its flag byte (the first) says compressed, and
\* pako.inflate raises on the bytes after the flag.
InflateFails(bc, map) ==
  /\ ~V2TestHolds(bc, map)
  /\ Len(bc) > 0 /\ bc[1] = 1
  /\ pakoInflate(Slice(bc, 1, Len(bc))).threw

\* C19: when the compression flag of the payload says compressed and the
\* decompression fails, disassemble() raises: version detection ends in the
\* raised state and no instruction is decoded for that payload.
C19_FailedDecompressionRaises ==
  [][(pc = "detect" /\ InflateFails(bytecode, opcodeMap))
       => (pc' = "threw" /\ instructions' = << >>)]_vars

\* The indices a loop region uses as a jump: its initial jump (v1), its
\* conditional jump, its back jump (v2).
LoopJumps(loop) == {loop.initJumpIdx, loop.condJumpIdx, loop.backJumpIdx} \ {Null}

\* C20: in the list detectLoops() returns, no instruction index is the initial
\* jump, the conditional jump or the back jump of more than one loop region.
C20_JumpsOfOneLoop ==
  \A a, b \in DOMAIN loops :
    a # b => LoopJumps(loops[a]) \cap LoopJumps(loops[b]) = {}

(***************************************************************************)
(* getVarName() as a state machine: one generator, a bounded sequence of   *)
(* calls with scope ids and slots on both sides of the sanity limits.      *)
(***************************************************************************)
ScopeIds == {Null, 0, 1, 1000, 1001}
VarIds == {Null, 0, 1, 10000, 10001}

InitNames ==
  /\ pc = "names"
  /\ bytecode = << >>
  /\ pointer = 0
  /\ detectedVersion = ""
  /\ opcodeMap = CanonicalMap
  /\ returnOpcode = Null
  /\ instructions = << >>
  /\ swappedOpcodes = {}
  /\ IdleAnalysis
  /\ IdleGenerator
  /\ IdleFile

\* this.getVarName(scopeId, varId) on the generator.
GetVarName ==
  /\ pc = "names"
  /\ Len(calls) < MaxCalls
  /\ \E scopeId \in ScopeIds, varId \in VarIds :
       LET r == getVarName(gen, scopeId, varId)
       IN /\ gen' = r.gen
          /\ calls' = Append(calls, [scopeId |-> scopeId, varId |-> varId,
                                     name |-> r.name])
  /\ UNCHANGED <<pc, instructions, swappedOpcodes, gi, stack, thrown, trace>>
  /\ UNCHANGED <<strings, stringsBytes, decodedStrings, payload>>
  /\ UNCHANGED <<disVars, anaVars>>

NextNames == GetVarName

SpecNames == InitNames /\ [][NextNames]_vars

\* The scope a call's name is kept under: undefined and ids above 1000 are 0.
KeptScope(c) == IF c.scopeId = Null \/ c.scopeId > 1000 THEN 0 ELSE c.scopeId

\* The slot is one getVarName keeps a name for.
KeptSlot(c) == c.varId # Null /\ c.varId <= 10000

\* C21 as stated: two getVarName calls on one generator return the same name
\* if and only if they were made with the same (scopeId, varSlot) pair.
C21_AsStated ==
  \A a, b \in DOMAIN calls :
    (calls[a].name = calls[b].name)
      <=> (calls[a].scopeId = calls[b].scopeId /\ calls[a].varId = calls[b].varId)

\* C21: two different getVarName calls on one generator return the same name
\* if and only if both slots are defined and at most 10000 and the calls have
\* the same slot and the same scope, an undefined scope and a scope above 1000
\* counting as scope 0; the names a prefix of the calls returned stay as they
\* are, so the name of a pair is the one of its first call.
C21_NamesByPair ==
  [][/\ \A a, b \in DOMAIN calls' :
          a # b =>
            ((calls'[a].name = calls'[b].name)
               <=> /\ KeptSlot(calls'[a]) /\ KeptSlot(calls'[b])
                   /\ KeptScope(calls'[a]) = KeptScope(calls'[b])
                   /\ calls'[a].varId = calls'[b].varId)
     /\ \A a \in DOMAIN calls : a \in DOMAIN calls' /\ calls'[a] = calls[a]]_vars

\* The pair (1, 1) is named twice with another pair in between: var_0, var_1,
\* var_0.
C21_Witness ==
  /\ pc = "names"
  /\ Len(calls) = 3
  /\ calls[1] = [scopeId |-> 1, varId |-> 1, name |-> "var_0"]
  /\ calls[2] = [scopeId |-> 0, varId |-> 1, name |-> "var_1"]
  /\ calls[3] = [scopeId |-> 1, varId |-> 1, name |-> "var_0"]

\* The names a generator holds in scopeVarNames.
Names(g) == {g.scopeVarNames[k] : k \in DOMAIN g.scopeVarNames}

\* The names getVarName mints while the counter goes from lo to hi.
MintedFrom(lo, hi) == {"var_" \o ToString(k) : k \in lo..(hi - 1)}

\* The generator buildFunctionBody() creates for instr and runs, as it is when
\* its generate() ends, normally or by an exception.
NestedGenerator(instr, g) ==
  generate(disassemble(<< 0 >> \o [k \in DOMAIN instr.fnBody |-> Or0(instr.fnBody[k])],
                       opcodeMap, Null),
           NewGenerator(g.indent + 1, g.varCounter), {}, opcodeMap)

\* The main loop is at a BUILD_FUNCTION that it lifts as a plain instruction.
AtBuildFunction ==
  /\ pc = "lifting" /\ gi < Len(instructions)
  /\ instructions[gi + 1].opName = "BUILD_FUNCTION"
  /\ instructions[gi + 1].fnBody # << >>
  /\ gi' = gi + 1

C23_RegionShape ==
  ("regions" \in DOMAIN cfg) =>
    \A k \in DOMAIN cfg.regions :
      LET region == cfg.regions[k]
          block  == Blk(cfg, region.conditionBlock)
      IN /\ block.id \in cfg.dominators[block.trueSuccessor]
         /\ block.id \in cfg.dominators[block.falseSuccessor]
         /\ region.mergeBlock = cfg.immediatePostDominators[block.id]

\* C24: generate() terminates: an iteration of the main loop continues at a
\* strictly larger index, the main loop does not come back to an index it
\* has left, and the branch lifting of processBlockSequence() does not
\* re-enter the region it is lifting (which ends in the engine's "Maximum
\* call stack size exceeded").
C24_GenerateTerminates ==
  [][pc = "lifting" =>
       /\ pc' # "diverged"
       /\ pc' = "lifting" => gi' > gi
       /\ thrown' # << "Maximum call stack size exceeded" >>]_vars

\* imm[n] is the member of sets[n] other than n whose own set contains every
\* other member of sets[n] other than n, for every n that has such members.
ClosestOfAll(sets, imm) ==
  \A n \in DOMAIN sets :
    LET strict == sets[n] \ {n}
    IN strict # {} =>
         /\ imm[n] \in strict
         /\ \A d \in strict \ {imm[n]} : d \in sets[imm[n]]

\* C25: after computeDominators(), for every block that has a strict
\* dominator, immediateDominators holds the strict dominator whose own Dom set
\* contains every other strict dominator of the block, and
\* immediatePostDominators holds the strict post-dominator whose own PostDom
\* set contains every other strict post-dominator of the block.
C25_ImmediateIsClosest ==
  ("immediateDominators" \in DOMAIN cfg) =>
    /\ ClosestOfAll(cfg.dominators, cfg.immediateDominators)
    /\ ClosestOfAll(cfg.postDominators, cfg.immediatePostDominators)


\* The operand width the schema gives an instruction, read from the decoded
\* instruction: its name, its body and its is_op argument.
SchemaWidth(instr, version) ==
  CASE instr.opName = "TRY_PUSH" -> IF version = V2_CURRENT THEN 4 ELSE 8
    [] instr.opName = "BUILD_REGEXP" -> IF version = V2_CURRENT THEN 1 ELSE 8
    [] instr.opName = "BUILD_FUNCTION" -> 4 + Len(instr.fnBody)
    [] instr.opName = "ASSIGN_VARIABLE" ->
         IF Or0(instr.args[1].value) # 0 THEN 10 ELSE 9
    [] instr.opName \in {"STACK_PUSH_STRING", "STACK_PUSH_DWORD",
                         "LOAD_ARGUMENT", "CALL_FUNCTION", "CALL_METHOD",
                         "CONSTRUCT", "BUILD_ARRAY", "BUILD_OBJECT", "JUMP",
                         "JUMP_IF_TRUE", "JUMP_IF_FALSE"} -> 4
    [] instr.opName \in {"STACK_PUSH_DOUBLE", "LOAD_VARIABLE",
                         "STORE_VARIABLE", "TRY_CATCH"} -> 8
    [] instr.opName \in {"UPDATE_PLUS", "UPDATE_MINUS", "PROP_UPDATE_PLUS",
                         "PROP_UPDATE_MINUS"} -> 9
    [] instr.opName \in {"STACK_PUSH_BOOLEAN", "COMPLEX_PROP_UPDATE_PLUS",
                         "COMPLEX_PROP_UPDATE_MINUS", "RETURN"} -> 1
    [] OTHER -> 0

\* C26: every decoded instruction that is not the last of its body is followed
\* by the instruction at its own addr plus 1 plus the operand width of its
\* schema: TRY_PUSH 8 under V1 and 4 under V2, BUILD_REGEXP 8 under V1 and 1
\* under V2, BUILD_FUNCTION 4 plus its body length, ASSIGN_VARIABLE 9 plus 1
\* when is_op is set.
C26_NextAddrBySchema ==
  \A k \in 1..(Len(instructions) - 1) :
    instructions[k + 1].addr =
      instructions[k].addr + 1 + SchemaWidth(instructions[k], detectedVersion)

\* A V2 body has been decoded with TRY_PUSH, BUILD_REGEXP, ASSIGN_VARIABLE with
\* is_op set and clear, and BUILD_FUNCTION each followed by an instruction.
C26_Witness ==
  /\ pc = "disassembled"
  /\ detectedVersion = V2_CURRENT
  /\ Len(instructions) = 6
  /\ [k \in 1..5 |-> instructions[k].opName] \o << >>
       = << "TRY_PUSH", "BUILD_REGEXP", "ASSIGN_VARIABLE", "ASSIGN_VARIABLE",
            "BUILD_FUNCTION" >>
  /\ [k \in 1..6 |-> instructions[k].addr] \o << >> = << 0, 5, 7, 18, 28, 35 >>


\* An instruction that pops the value under it and is not in getConsumeOps.
UnlistedPopper(instr) ==
  \/ instr.opName = "RETURN" /\ ArgValue(instr, 0) = TRUE
  \/ instr.opName \in {"JUMP_IF_TRUE", "JUMP_IF_FALSE", "CALL_FUNCTION",
                       "UNARY_PLUS", "UNARY_MINUS", "UNARY_NOT", "UNARY_BIT_NOT",
                       "UNARY_TYPEOF", "UNARY_VOID", "UNARY_THROW",
                       "BINARY_BIT_SHIFT_LEFT", "BINARY_BIT_SHIFT_RIGHT",
                       "BINARY_UNSIGNED_BIT_SHIFT_RIGHT"}

\* The stack processInstruction leaves for a call lifted on the stack st.
LiftedCall(instr, st) ==
  CASE instr.opName = "CALL_FUNCTION" -> buildFunctionCall(st, ArgValue(instr, 0))
    [] instr.opName = "CALL_METHOD" -> buildMethodCall(st, ArgValue(instr, 0))
    [] OTHER -> buildConstruct(st, ArgValue(instr, 0))

\* C27: when the main loop has lifted a CALL_FUNCTION, CALL_METHOD or CONSTRUCT
\* and the next instruction pops its result without being in the consume-ops
\* table, the call expression is still on the symbolic stack when that next
\* instruction is lifted (so that CALL_FUNCTION; RETURN(true) lifts to
\* `return <call>;`).
C27_CallStaysForUnlistedPopper ==
  (/\ pc = "lifting"
   /\ trace.last = "plain"
   /\ gi = trace.at + 1
   /\ gi < Len(instructions)
   /\ instructions[gi].opName \in getCallOps
   /\ UnlistedPopper(instructions[gi + 1]))
    => stack = LiftedCall(instructions[gi], trace.before)


\* The statement line is one of the output lines of g, at some indentation.
InOutput(g, line) ==
  \E k \in DOMAIN g.output : \E n \in 0..4 : g.output[k] = IndentStr(n) \o line

\* C28: every RETURN that is lifted produces its own return statement in the
\* output, placed where the instruction occurs: when a step of the main loop
\* lifts a RETURN after an earlier one (if (c) { return 1; } return 2;), the
\* statement of the earlier RETURN is in the output.
C28_EveryReturnEmitted ==
  [][(/\ pc = "lifting"
      /\ gen.pendingReturn # << >>
      /\ gen'.pendingReturn # gen.pendingReturn)
       => InOutput(gen', gen.pendingReturn[1])]_vars


\* The loop the main loop lifts at index i.
LoopAt(i) ==
  IF i \in DOMAIN maps.loopsByInitJump THEN maps.loopsByInitJump[i]
  ELSE maps.loopsByCondStart[i]

\* The VM stays in the loop when its condition is true: a v1 loop jumps back
\* on JUMP_IF_TRUE, a v2 loop leaves on JUMP_IF_FALSE.
LoopsOnTrue(loop) == (loop.pattern = "v1") = loop.isTrue

\* The while line stated for a loop whose lifted condition is cond.
StatedWhileLine(loop, cond, indent) ==
  Cat(T(IndentStr(indent)),
      IF LoopsOnTrue(loop) THEN CatAll(<< T("while ("), cond.text, T(") {") >>)
      ELSE CatAll(<< T("while (!("), cond.text, T(")) {") >>))

\* C29: for every detected loop the emitted while condition is the lifted
\* condition expression when the VM keeps looping on a true condition (v1 with
\* a JUMP_IF_TRUE back-jump, v2 with a JUMP_IF_FALSE exit jump) and its negation
\* when the VM keeps looping on a false condition (v1 with a JUMP_IF_FALSE
\* back-jump, v2 with a JUMP_IF_TRUE exit jump).
C29_WhileConditionPolarity ==
  [][(pc = "lifting" /\ pc' = "lifting" /\ trace'.last = "while") =>
       LET loop == LoopAt(gi)
           cond == PopOr(RunRange(Cx, loop.condStartIdx, loop.condEndIdx,
                                  St(<< >>, gen), TRUE).stack, Bool(TRUE))
           line == StatedWhileLine(loop, cond, gen.indent)
       IN SubSeq(gen'.output, Len(gen.output) + 1, Len(gen.output) + Len(line))
            = line]_vars


\* The generator of the nested body of instr as it ends when it is given the
\* swapped opcodes of the enclosing generator g.
NestedWithOuterSet(instr, g) ==
  generate(disassemble(<< 0 >> \o [k \in DOMAIN instr.fnBody |-> Or0(instr.fnBody[k])],
                       opcodeMap, Null),
           NewGenerator(g.indent + 1, g.varCounter), swappedOpcodes, opcodeMap)

\* The text of the function expression around the output of the generator sub.
FunctionText(sub, indent) ==
  << "function() {" >>
    \o [k \in DOMAIN OutputLines(sub) |-> "  " \o OutputLines(sub)[k]]
    \o << IndentStr(indent) \o "}" >>

\* C30: a binary opcode whose raw number is in SwappedOpcodes is lifted with the
\* same operand order inside a nested function body as at top level: the
\* function expression a BUILD_FUNCTION pushes is the one its body lifts to
\* under the SwappedOpcodes set of the enclosing generator.
C30_NestedSwappedOpcodes ==
  [][(AtBuildFunction /\ pc' = "lifting"
        /\ ~Threw(NestedWithOuterSet(instructions[gi + 1], gen)))
       => /\ stack' # << >>
          /\ stack'[Len(stack')].text
               = FunctionText(NestedWithOuterSet(instructions[gi + 1], gen),
                              gen.indent)]_vars

====
